---- MODULE Spec2Model ----
(***************************************************************************)
(* Model of the NL->SQL assistant: the feedback ingestion pipeline         *)
(* (legacy_assistant/feedback_learn.py, feedback.py) and the candidate     *)
(* generator (legacy_assistant/nl2sql.py).                                 *)
(*                                                                         *)
(* Text is a sequence of lexemes.  A lexeme is a word, a number or the     *)
(* whitespace lexeme WS; upper-case words are lexemes of their own, so     *)
(* that lower(), strip() and " ".join(s.split()) are real conversions.     *)
(***************************************************************************)
EXTENDS Integers, Sequences, FiniteSets, TLC

VARIABLES
    log,          \* feedback.jsonl: the sequence of lines appended so far
    offsetFile,   \* feedback.offset: the persisted checkpoint, -1 = absent/empty
    corpusFile,   \* user_templates.jsonl: sequence of {q, sql, count}
    synFile,      \* synonyms.json: token -> {count, maps_to}
    patFile,      \* patterns.jsonl: sequence of {q_pat, sql_pat}
    pc,           \* position of each ingest_feedback_to_corpus() call
    loc,          \* local variables of each ingest_feedback_to_corpus() call
    ret,          \* last value returned by each caller's ingest
    doneMax,      \* largest checkpoint written by an ingest that has returned
    saved,        \* an operator's backup copy of the checkpoint file
    cands,        \* result of the last generate_candidates() call
    genArgs,      \* the question and the learned schema of that call, and
                  \* the candidates it appended before merging them
    pathArgs,     \* the arguments of a find_join_path() call
    path,         \* what that call returned
    edges,        \* what infer_fk_edges() returned for the schema of the call
    runArgs,      \* the arguments of a run_sql() call
    runOut,       \* what that call executed and returned
    dynSynCache,  \* nlp._dyn_syn_cache of the asking process, <<>> for None
    synOut,       \* the last synonyms_for() call: token, result, store read
    loaded,       \* what the last load_*() call of a reader returned
    scoreArgs,    \* the arguments of a score_table_column() call
    scoreOut      \* the table hinted and the tables given the bonus

\* The variables of the ingestion and of the candidate generator
storeVars == <<log, offsetFile, corpusFile, synFile, patFile, pc, loc, ret,
               doneMax, saved, cands, genArgs>>
pathVars == <<pathArgs, path, edges>>
runVars == <<runArgs, runOut>>
callVars == <<dynSynCache, synOut, loaded, scoreArgs, scoreOut>>

vars == <<storeVars, pathVars, runVars, callVars>>

(***************************************************************************)
(* Bounds of the model.                                                    *)
(***************************************************************************)
MaxLog == 2        \* lines the feedback log may hold
MaxCount == 3      \* no new ingest starts once a stored count exceeds this

Procs == {1, 2}    \* callers of ingest (user sessions)
SeqProcs == {1}    \* a single caller: calls never overlap

(***************************************************************************)
(* Text helpers.                                                           *)
(***************************************************************************)
\* Python's None
None == "<None>"

WS == " "
NL == "\n"
Space == {WS, NL}

\* str.lower() on one lexeme: the upper-case lexemes of the vocabulary.
LowerLex(w) ==
    CASE w = "Q1" -> "q1"
      [] w = "TOP" -> "top"
      [] w = "Claims" -> "claims"
      [] w = "SELECT" -> "select"
      [] w = "Select" -> "select"
      [] w = "LIMIT" -> "limit"
      [] w = "Limit" -> "limit"
      [] w = "PRAGMA" -> "pragma"
      [] OTHER -> w

Lower(s) == [i \in 1..Len(s) |-> LowerLex(s[i])]

RECURSIVE LStrip(_)
LStrip(s) == IF s # <<>> /\ Head(s) \in Space THEN LStrip(Tail(s)) ELSE s

RECURSIVE RStrip(_)
RStrip(s) ==
    IF s # <<>> /\ s[Len(s)] \in Space THEN RStrip(SubSeq(s, 1, Len(s) - 1)) ELSE s

\* str.strip()
Strip(s) == RStrip(LStrip(s))

\* str.split(): the words between runs of whitespace
Split(s) == SelectSeq(s, LAMBDA w : w \notin Space)

\* " ".join(words)
RECURSIVE Join(_)
Join(words) ==
    IF Len(words) <= 1 THEN words
    ELSE <<Head(words), WS>> \o Join(Tail(words))

\* " ".join(sql.split()): the text stripped, each run of whitespace inside it
\* one blank (lexemes with no whitespace between them stay adjacent)
RECURSIVE CollapseRuns(_)
CollapseRuns(s) ==
    IF s = <<>> THEN <<>>
    ELSE IF Head(s) \in Space
         THEN IF Len(s) > 1 /\ s[2] \in Space THEN CollapseRuns(Tail(s))
              ELSE <<WS>> \o CollapseRuns(Tail(s))
    ELSE <<Head(s)>> \o CollapseRuns(Tail(s))

NormSql(s) == CollapseRuns(Strip(s))

\* \d+ lexemes and the (19|20)\d{2} lexemes among them
Digits == {"1", "3", "5", "10", "200", "2024", "2025"}
Years == {"2024", "2025"}

\* Python's string order on the lower-case lexemes that occur in questions
\* and in rationale texts
LexOrder == <<" ", "1", "10", "100", "200", "2024", "2025", "3", "4", "5",
              "_count", "_id", "a", "accounts", "active", "active_policies",
              "all", "an", "and", "ann", "any", "are", "at", "average",
              "avg_", "bob", "by", "c", "city", "claim", "claim_id",
              "claim_number", "claims", "closed", "column", "columns",
              "count", "country_code", "counts", "created", "created_at",
              "credit", "display", "display_name", "distinct", "distinct_",
              "do", "does", "entries", "expired", "expiry_date", "find",
              "first", "for", "from", "give", "highest", "how", "id", "in",
              "invoice_number", "is", "item", "item_id", "items", "join",
              "limit", "list", "lower", "many", "me", "members", "n",
              "name", "names", "o", "of", "on", "open", "or", "order",
              "order_id", "orders", "org_code", "org_name",
              "organization_name", "organizations", "p", "policies",
              "policy", "policy_number", "q1", "q2", "records", "row",
              "row_count", "rows", "s", "select", "show", "stage", "state",
              "statu", "status", "substr", "sum", "sum_", "table", "the",
              "title", "to", "top", "total", "unique", "user",
              "user_account", "user_count", "user_id", "username", "users",
              "what", "when", "where", "which", "with", "within", "{K}",
              "{YEAR}", "{city_lc}", "{city}", "{k}", "{policy_number}",
              "{year}">>

LexRank(w) ==
    IF \E i \in 1..Len(LexOrder) : LexOrder[i] = w
    THEN CHOOSE i \in 1..Len(LexOrder) : LexOrder[i] = w
    ELSE Len(LexOrder) + 1

RECURSIVE StrLess(_, _)
StrLess(a, b) ==
    IF b = <<>> THEN FALSE
    ELSE IF a = <<>> THEN TRUE
    ELSE IF Head(a) = Head(b) THEN StrLess(Tail(a), Tail(b))
    ELSE LexRank(Head(a)) < LexRank(Head(b))

(***************************************************************************)
(* The feedback log (feedback.py: record_feedback).                        *)
(***************************************************************************)
S_Select1 == <<"SELECT", WS, "1">>
S_Select1Wide == <<"SELECT", WS, WS, "1">>
S_Status == <<"SELECT", WS, "claims.status", WS, "FROM", WS, "claims", WS,
              "LIMIT", WS, "5">>
S_TwoLimits == <<"SELECT", WS, "claims.status", WS, "FROM", WS, "(", WS,
                 "SELECT", WS, "claims.status", WS, "FROM", WS, "claims", WS,
                 "LIMIT", WS, "5", WS, ")", WS, "LIMIT", WS, "3">>

Q_q1 == <<"q1">>
Q_Q1 == <<WS, "Q1">>
Q_Top == <<"top", WS, WS, "5", WS, "claims">>

\* An unparsable line of the log: json.loads(line) raises
BadLine == [parsable |-> FALSE, record |-> FALSE, question |-> <<>>,
            generated_sql |-> <<>>, correct |-> FALSE, corrected_sql |-> <<>>]

\* A line such as null, 5 or []: json.loads(line) returns a value that is
\* not an object
ScalarLine == [parsable |-> TRUE, record |-> FALSE, question |-> <<>>,
               generated_sql |-> <<>>, correct |-> FALSE,
               corrected_sql |-> <<>>]

\* json.dumps(rec) + "\n" for the arguments of record_feedback; an absent
\* corrected_sql (None) reads back as the empty text
Rec(q, gen, ok, corr) ==
    [parsable |-> TRUE, record |-> TRUE, question |-> q,
     generated_sql |-> gen, correct |-> ok, corrected_sql |-> corr]

RecsOf(Qs, Gens, Corrs) ==
    {Rec(q, g, ok, c) : q \in Qs, g \in Gens, ok \in BOOLEAN, c \in Corrs}

\* Lines appended in the sequential runs
SeqLines == RecsOf({Q_q1}, {S_Select1}, {<<>>, S_Status})
              \cup RecsOf({Q_Q1}, {S_Select1Wide}, {<<>>, S_Status})
              \cup {Rec(<<>>, S_Select1, TRUE, <<>>), BadLine, ScalarLine}

\* Lines appended in the runs with crashes, restores or concurrent callers
FewLines == {Rec(Q_q1, S_Select1, TRUE, <<>>),
             Rec(Q_Q1, S_Select1Wide, FALSE, S_Status),
             Rec(Q_q1, S_Select1, FALSE, <<>>)}

\* len(line.encode("utf-8")) of a line of the log
LineBytes(l) == IF l.parsable THEN 3 + Len(l.question) ELSE 2

RECURSIVE LogBytes(_)
LogBytes(lg) == IF lg = <<>> THEN 0 ELSE LineBytes(Head(lg)) + LogBytes(Tail(lg))

\* Byte position where line i of the log ends
EndOf(lg, i) == LogBytes(SubSeq(lg, 1, i))

(***************************************************************************)
(* feedback_learn.py: the corpus index, synonym mining, pattern induction. *)
(***************************************************************************)
\* index.get(key, 0) on the insertion-ordered dict index: (q, sql) -> count
IndexGet(index, q, sql) ==
    IF \E i \in 1..Len(index) : index[i].q = q /\ index[i].sql = sql
    THEN LET i == CHOOSE j \in 1..Len(index) :
                      index[j].q = q /\ index[j].sql = sql
         IN index[i].count
    ELSE 0

\* Faulty variant: index[key] = n, the stored count forgotten
IndexAddOverwrite(index, q, sql, n) ==
    IF \E i \in 1..Len(index) : index[i].q = q /\ index[i].sql = sql
    THEN [i \in 1..Len(index) |->
            IF index[i].q = q /\ index[i].sql = sql
            THEN [index[i] EXCEPT !.count = n] ELSE index[i]]
    ELSE Append(index, [q |-> q, sql |-> sql, count |-> n])

\* index[key] = index.get(key, 0) + n
IndexAdd(index, q, sql, n) ==
    IF \E i \in 1..Len(index) : index[i].q = q /\ index[i].sql = sql
    THEN [i \in 1..Len(index) |->
            IF index[i].q = q /\ index[i].sql = sql
            THEN [index[i] EXCEPT !.count = @ + n] ELSE index[i]]
    ELSE Append(index, [q |-> q, sql |-> sql, count |-> n])

Max(a, b) == IF a >= b THEN a ELSE b

\* Faulty variant of the aggregation loop: every stored item counts once,
\* its stored count forgotten
RECURSIVE AggregateForgetCount(_, _)
AggregateForgetCount(items, index) ==
    IF items = <<>> THEN index
    ELSE LET it == Head(items)
             q == Lower(Strip(it.q))
             sql == NormSql(Strip(it.sql))
         IN AggregateForgetCount(Tail(items),
                      IF q # <<>> /\ sql # <<>>
                      THEN IndexAdd(index, q, sql, 1)
                      ELSE index)

\* The aggregation loop over the items of the corpus file
RECURSIVE Aggregate(_, _)
Aggregate(items, index) ==
    IF items = <<>> THEN index
    ELSE LET it == Head(items)
             q == Lower(Strip(it.q))
             sql == NormSql(Strip(it.sql))
             cnt == IF it.count = 0 THEN 1 ELSE it.count
         IN Aggregate(Tail(items),
                      IF q # <<>> /\ sql # <<>>
                      THEN IndexAdd(index, q, sql, Max(1, cnt))
                      ELSE index)

\* key=lambda x: (-x["count"], x["q"])
ItemLess(a, b) ==
    \/ a.count > b.count
    \/ a.count = b.count /\ StrLess(a.q, b.q)

InsertSorted(srt, x) ==
    LET k == Cardinality({i \in 1..Len(srt) : ~ItemLess(x, srt[i])})
    IN SubSeq(srt, 1, k) \o <<x>> \o SubSeq(srt, k + 1, Len(srt))

\* list.sort(key=...): stable
RECURSIVE SortItems(_, _)
SortItems(items, srt) ==
    IF items = <<>> THEN srt
    ELSE SortItems(Tail(items), InsertSorted(srt, Head(items)))

\* Faulty variant: sql = corr if corr else gen, the correct flag ignored
AcceptedSqlAnyGenerated(rec) ==
    LET corr == Strip(rec.corrected_sql)
        gen == Strip(rec.generated_sql)
    IN IF corr # <<>> THEN corr ELSE gen

\* The accepted query text of a record: sql = corr if corr else (gen if correct else "")
AcceptedSql(rec) ==
    LET corr == Strip(rec.corrected_sql)
        gen == Strip(rec.generated_sql)
    IN IF corr # <<>> THEN corr ELSE IF rec.correct THEN gen ELSE <<>>

\* _SQL_COL: the table.column references of a query text
ColRefLex == {"claims.status", "claims.amount"}
SqlCols(sql) == {sql[i] : i \in {j \in 1..Len(sql) : sql[j] \in ColRefLex}}

\* re.findall(r"[a-z0-9_]+", q) keeping len(w) > 1, minus the mining stop list
OneChar == {"1", "3", "5", "(", ")", "*"}
MineStop == {"unique", "distinct", "how", "many", "rows", "in", "by", "top",
             "first", "show", "list"}
MineTokens(q) ==
    SelectSeq(q, LAMBDA w : w # WS /\ w \notin OneChar /\ w \notin MineStop)

EmptySyn == [t \in {} |-> 0]

\* entry = syn.setdefault(tok, ...); entry["count"] += 1; maps_to[col] += 1
SynAdd(syn, tok, cols) ==
    LET old == IF tok \in DOMAIN syn THEN syn[tok]
               ELSE [count |-> 0, maps_to |-> EmptySyn]
        m == [c \in (DOMAIN old.maps_to) \cup cols |->
                 (IF c \in DOMAIN old.maps_to THEN old.maps_to[c] ELSE 0)
                 + (IF c \in cols THEN 1 ELSE 0)]
        new == [count |-> old.count + 1, maps_to |-> m]
    IN [t \in (DOMAIN syn) \cup {tok} |-> IF t = tok THEN new ELSE syn[t]]

RECURSIVE MineSyn(_, _, _)
MineSyn(syn, toks, cols) ==
    IF toks = <<>> THEN syn
    ELSE MineSyn(SynAdd(syn, Head(toks), cols), Tail(toks), cols)

\* re.sub(r"\b(19|20)\d{2}\b", "{YEAR}", s)
ReplYear(s) == [i \in 1..Len(s) |-> IF s[i] \in Years THEN "{YEAR}" ELSE s[i]]

\* re.sub(r"\b(kw)\s+\d+\b", r"\1 {K}", s) for the keywords kws
RECURSIVE ReplK(_, _)
ReplK(s, kws) ==
    IF s = <<>> THEN <<>>
    ELSE LET rest == Tail(s)
             r == LStrip(rest)
         IN IF Head(s) \in kws /\ Len(r) < Len(rest) /\ r # <<>>
               /\ Head(r) \in Digits
            THEN <<Head(s), WS, "{K}">> \o ReplK(Tail(r), kws)
            ELSE <<Head(s)>> \o ReplK(rest, kws)

PatQ(q) == ReplK(ReplYear(q), {"top", "first"})
PatSql(sql) == ReplK(ReplYear(sql), {"LIMIT"})

\* The "dedupe patterns" loop: first occurrences, in order
RECURSIVE DedupePatterns(_, _)
DedupePatterns(pats, uniq) ==
    IF pats = <<>> THEN uniq
    ELSE DedupePatterns(Tail(pats),
            IF \E i \in 1..Len(uniq) : uniq[i] = Head(pats)
            THEN uniq ELSE Append(uniq, Head(pats)))

\* Locals of a call before it has read anything
InitLoc == [corpus_items |-> <<>>, index |-> <<>>, new_count |-> 0,
            offset |-> 0, size_after |-> 0, syn |-> EmptySyn,
            patterns |-> <<>>, total |-> 0, wrote |-> FALSE]

\* Faulty variant: new_count counts every accepted record
ProcessLineCountsAll(L, line, nbytes) ==
    LET L1 == [L EXCEPT !.size_after = @ + nbytes]
        q == Lower(Strip(line.question))
        sql == AcceptedSql(line)
        norm_sql == NormSql(sql)
    IN IF ~line.parsable THEN L1
       ELSE IF ~(q # <<>> /\ sql # <<>>) THEN L1
       ELSE [L1 EXCEPT
               !.index = IndexAdd(L.index, q, norm_sql, 1),
               !.new_count = @ + 1,
               !.syn = MineSyn(L.syn, MineTokens(q), SqlCols(norm_sql)),
               !.patterns = Append(L.patterns,
                               [q_pat |-> PatQ(q), sql_pat |-> PatSql(norm_sql)])]

\* One iteration of "for line in f" on a line of nbytes bytes
ProcessLine(L, line, nbytes) ==
    LET L1 == [L EXCEPT !.size_after = @ + nbytes]
        q == Lower(Strip(line.question))
        sql == AcceptedSql(line)
        norm_sql == NormSql(sql)
        was == IndexGet(L.index, q, norm_sql)
    IN IF ~line.parsable THEN L1
       ELSE IF ~(q # <<>> /\ sql # <<>>) THEN L1
       ELSE [L1 EXCEPT
               !.index = IndexAdd(L.index, q, norm_sql, 1),
               !.new_count = IF was = 0 THEN @ + 1 ELSE @,
               !.syn = MineSyn(L.syn, MineTokens(q), SqlCols(norm_sql)),
               !.patterns = Append(L.patterns,
                               [q_pat |-> PatQ(q), sql_pat |-> PatSql(norm_sql)])]

\* Faulty variant: only the last item of the sorted list is written back
NewItemsKeepsLast(index) ==
    IF index = <<>> THEN <<>> ELSE <<SortItems(index, <<>>)[Len(index)]>>

\* new_items: the index as a list, sorted by (-count, q)
NewItems(index) == SortItems(index, <<>>)

\* _read_offset(): an absent, empty or unreadable file reads as 0
ReadOffset == IF offsetFile < 0 THEN 0 ELSE offsetFile

\* The line of the log that f yields at byte position pos, with its length
\* in bytes; a position inside a line yields the rest of that line,
\* which does not parse.
LineIdxAt(lg, pos) == CHOOSE i \in 1..Len(lg) :
                         EndOf(lg, i) > pos /\ (i = 1 \/ EndOf(lg, i - 1) <= pos)
ChunkAt(lg, pos) ==
    LET i == LineIdxAt(lg, pos)
        start == EndOf(lg, i - 1)
    IN [line |-> IF start = pos THEN lg[i] ELSE BadLine,
        nbytes |-> EndOf(lg, i) - pos]

(***************************************************************************)
(* record_feedback and the steps of ingest_feedback_to_corpus().  Every    *)
(* read or write of a file is a step of its own.                           *)
(***************************************************************************)
AllIdle == \A p \in Procs : pc[p] = "idle"

\* record_feedback: append one line to the log
RecordFeedback(S) ==
    /\ Len(log) < MaxLog
    /\ \E line \in S : log' = Append(log, line)
    /\ UNCHANGED <<offsetFile, corpusFile, synFile, patFile, pc, loc, ret,
                   doneMax, saved, cands, genArgs,
                   pathVars, runVars, callVars>>

\* The stores have not outgrown the model
Bounded ==
    /\ \A i \in 1..Len(corpusFile) : corpusFile[i].count <= MaxCount
    /\ \A t \in DOMAIN synFile : synFile[t].count <= 2 * MaxCount

\* corpus_items = _load_jsonl(USER_CORPUS) and the aggregation into index
LoadCorpus(p) ==
    /\ pc[p] = "idle"
    /\ Bounded
    /\ loc' = [loc EXCEPT ![p] = [InitLoc EXCEPT
                   !.corpus_items = corpusFile,
                   !.index = Aggregate(corpusFile, <<>>)]]
    /\ pc' = [pc EXCEPT ![p] = "read_offset"]
    /\ UNCHANGED <<log, offsetFile, corpusFile, synFile, patFile, ret,
                   doneMax, saved, cands, genArgs,
                   pathVars, runVars, callVars>>

\* offset = _read_offset(); size_after = offset
ReadCheckpoint(p) ==
    /\ pc[p] = "read_offset"
    /\ loc' = [loc EXCEPT ![p].offset = ReadOffset, ![p].size_after = ReadOffset]
    /\ pc' = [pc EXCEPT ![p] = "check_log"]
    /\ UNCHANGED <<log, offsetFile, corpusFile, synFile, patFile, ret,
                   doneMax, saved, cands, genArgs,
                   pathVars, runVars, callVars>>

\* if not os.path.exists(FEEDBACK_LOG): return (0, len(index))
CheckLog(p) ==
    /\ pc[p] = "check_log"
    /\ IF log = <<>>
       THEN /\ loc' = [loc EXCEPT ![p].total = Len(loc[p].index)]
            /\ pc' = [pc EXCEPT ![p] = "return"]
       ELSE /\ loc' = loc
            /\ pc' = [pc EXCEPT ![p] = "load_syn"]
    /\ UNCHANGED <<log, offsetFile, corpusFile, synFile, patFile, ret,
                   doneMax, saved, cands, genArgs,
                   pathVars, runVars, callVars>>

\* syn = _load_json(SYN_STORE)
LoadSyn(p) ==
    /\ pc[p] = "load_syn"
    /\ loc' = [loc EXCEPT ![p].syn = synFile]
    /\ pc' = [pc EXCEPT ![p] = "load_patterns"]
    /\ UNCHANGED <<log, offsetFile, corpusFile, synFile, patFile, ret,
                   doneMax, saved, cands, genArgs,
                   pathVars, runVars, callVars>>

\* patterns = _load_jsonl(PATTERNS)
LoadPatterns(p) ==
    /\ pc[p] = "load_patterns"
    /\ loc' = [loc EXCEPT ![p].patterns = patFile]
    /\ pc' = [pc EXCEPT ![p] = "loop"]
    /\ UNCHANGED <<log, offsetFile, corpusFile, synFile, patFile, ret,
                   doneMax, saved, cands, genArgs,
                   pathVars, runVars, callVars>>

\* rec.get("question") on the value of a line: an AttributeError, which
\* nothing in ingest catches, when the value is not an object
Raises(line) == line.parsable /\ ~line.record

\* f.seek(offset); for line in f: one line per step, until the end of file;
\* an exception ends the call with its locals lost and no file written
ReadLine(p) ==
    /\ pc[p] = "loop"
    /\ IF loc[p].size_after < LogBytes(log)
       THEN LET ch == ChunkAt(log, loc[p].size_after)
            IN IF Raises(ch.line)
               THEN /\ loc' = [loc EXCEPT ![p] = InitLoc]
                    /\ pc' = [pc EXCEPT ![p] = "idle"]
               ELSE /\ loc' = [loc EXCEPT ![p] =
                                  ProcessLine(loc[p], ch.line, ch.nbytes)]
                    /\ pc' = pc
       ELSE /\ loc' = loc
            /\ pc' = [pc EXCEPT ![p] = "write_corpus"]
    /\ UNCHANGED <<log, offsetFile, corpusFile, synFile, patFile, ret,
                   doneMax, saved, cands, genArgs,
                   pathVars, runVars, callVars>>

\* new_items built and sorted; _dump_jsonl_atomic(USER_CORPUS, new_items):
\* the lines go to a temporary file, and os.replace puts it in place in one
\* step
WriteCorpus(p) ==
    /\ pc[p] = "write_corpus"
    /\ corpusFile' = NewItems(loc[p].index)
    /\ loc' = [loc EXCEPT ![p].total = Len(NewItems(loc[p].index)),
                          ![p].wrote = TRUE]
    /\ pc' = [pc EXCEPT ![p] = "write_syn"]
    /\ UNCHANGED <<log, offsetFile, synFile, patFile, ret, doneMax, saved, cands, genArgs,
                   pathVars, runVars, callVars>>

\* _dump_json(SYN_STORE, syn)
WriteSyn(p) ==
    /\ pc[p] = "write_syn"
    /\ synFile' = loc[p].syn
    /\ pc' = [pc EXCEPT ![p] = "write_patterns"]
    /\ UNCHANGED <<log, offsetFile, corpusFile, patFile, loc, ret, doneMax,
                   saved, cands, genArgs,
                   pathVars, runVars, callVars>>

\* _dump_jsonl_atomic(PATTERNS, uniq)
WritePatterns(p) ==
    /\ pc[p] = "write_patterns"
    /\ patFile' = DedupePatterns(loc[p].patterns, <<>>)
    /\ pc' = [pc EXCEPT ![p] = "open_offset"]
    /\ UNCHANGED <<log, offsetFile, corpusFile, synFile, loc, ret, doneMax,
                   saved, cands, genArgs,
                   pathVars, runVars, callVars>>

\* _write_offset: open(FEEDBACK_OFFSET, "w") empties the file ...
OpenOffset(p) ==
    /\ pc[p] = "open_offset"
    /\ offsetFile' = -1
    /\ pc' = [pc EXCEPT ![p] = "write_offset"]
    /\ UNCHANGED <<log, corpusFile, synFile, patFile, loc, ret, doneMax,
                   saved, cands, genArgs,
                   pathVars, runVars, callVars>>

\* ... and f.write(str(int(n))) with the close stores size_after
WriteOffset(p) ==
    /\ pc[p] = "write_offset"
    /\ offsetFile' = loc[p].size_after
    /\ pc' = [pc EXCEPT ![p] = "return"]
    /\ UNCHANGED <<log, corpusFile, synFile, patFile, loc, ret, doneMax,
                   saved, cands, genArgs,
                   pathVars, runVars, callVars>>

\* return new_count, len(new_items)
Return(p) ==
    /\ pc[p] = "return"
    /\ ret' = [ret EXCEPT ![p] = <<loc[p].new_count, loc[p].total>>]
    /\ doneMax' = IF loc[p].wrote THEN Max(doneMax, loc[p].size_after)
                  ELSE doneMax
    /\ loc' = [loc EXCEPT ![p] = InitLoc]
    /\ pc' = [pc EXCEPT ![p] = "idle"]
    /\ UNCHANGED <<log, offsetFile, corpusFile, synFile, patFile, saved, cands, genArgs,
                   pathVars, runVars, callVars>>

\* The process running ingest is killed: its locals are lost, the files stay
Crash(p) ==
    /\ pc[p] # "idle"
    /\ loc' = [loc EXCEPT ![p] = InitLoc]
    /\ pc' = [pc EXCEPT ![p] = "idle"]
    /\ UNCHANGED <<log, offsetFile, corpusFile, synFile, patFile, ret,
                   doneMax, saved, cands, genArgs,
                   pathVars, runVars, callVars>>

\* An operator copies the checkpoint file aside ...
SaveCheckpoint ==
    /\ AllIdle
    /\ saved # offsetFile
    /\ saved' = offsetFile
    /\ UNCHANGED <<log, offsetFile, corpusFile, synFile, patFile, pc, loc,
                   ret, doneMax, cands, genArgs,
                   pathVars, runVars, callVars>>

\* ... and later puts the copy back: the checkpoint returns to a prior value
RestoreCheckpoint ==
    /\ AllIdle
    /\ Bounded
    /\ saved < offsetFile
    /\ offsetFile' = saved
    /\ UNCHANGED <<log, corpusFile, synFile, patFile, pc, loc, ret, doneMax,
                   saved, cands, genArgs,
                   pathVars, runVars, callVars>>

Init ==
    /\ log = <<>>
    /\ offsetFile = -1
    /\ corpusFile = <<>>
    /\ synFile = EmptySyn
    /\ patFile = <<>>
    /\ pc = [p \in Procs |-> "idle"]
    /\ loc = [p \in Procs |-> InitLoc]
    /\ ret = [p \in Procs |-> <<>>]
    /\ doneMax = 0
    /\ saved = -1
    /\ cands = <<>>
    /\ genArgs = <<>>
    /\ pathArgs = <<>> /\ path = <<>> /\ edges = <<>>
    /\ runArgs = <<>> /\ runOut = <<>>
    /\ dynSynCache = <<>> /\ synOut = <<>> /\ loaded = <<>>
    /\ scoreArgs = <<>> /\ scoreOut = <<>>

IngestBody(p) ==
    \/ ReadCheckpoint(p)
    \/ CheckLog(p)
    \/ LoadSyn(p)
    \/ LoadPatterns(p)
    \/ ReadLine(p)
    \/ WriteCorpus(p)
    \/ WriteSyn(p)
    \/ WritePatterns(p)
    \/ OpenOffset(p)
    \/ WriteOffset(p)
    \/ Return(p)

Ingest(p) ==
    \/ LoadCorpus(p)
    \/ IngestBody(p)

\* Crash-free calls of one caller, feedback recorded between the calls
NextSeq ==
    \/ \E p \in SeqProcs : Ingest(p)
    \/ AllIdle /\ RecordFeedback(SeqLines)

SpecSeq == Init /\ [][NextSeq]_vars

\* One caller whose ingest may be killed at any step
NextCrash ==
    \/ \E p \in SeqProcs : Ingest(p)
    \/ \E p \in SeqProcs : Crash(p)
    \/ AllIdle /\ RecordFeedback(FewLines)

SpecCrash == Init /\ [][NextCrash]_vars

\* One caller, and an operator who saves and restores the checkpoint file
NextReplay ==
    \/ \E p \in SeqProcs : Ingest(p)
    \/ AllIdle /\ RecordFeedback(FewLines)
    \/ SaveCheckpoint
    \/ RestoreCheckpoint

SpecReplay == Init /\ [][NextReplay]_vars

\* Two callers, each calling ingest once, the calls overlapping in any way,
\* feedback recorded at any time
NextConc ==
    \/ \E p \in Procs : ret[p] = <<>> /\ LoadCorpus(p)
    \/ \E p \in Procs : IngestBody(p)
    \/ RecordFeedback(FewLines)

SpecConc == Init /\ [][NextConc]_vars

(***************************************************************************)
(* load_user_corpus and the reference results the claims compare with.     *)
(***************************************************************************)
\* load_user_corpus(): the file re-aggregated and sorted
LoadUserCorpus == SortItems(Aggregate(corpusFile, <<>>), <<>>)

Range(f) == {f[i] : i \in DOMAIN f}

\* The lines of lg that end at or before byte position pos
ConsumedLines(lg, pos) == {i \in 1..Len(lg) : EndOf(lg, i) <= pos}

\* A line whose record carries a question and an accepted query text
Accepted(line) ==
    /\ line.parsable
    /\ Lower(Strip(line.question)) # <<>>
    /\ AcceptedSql(line) # <<>>

PairOf(line) == [q |-> Lower(Strip(line.question)),
                 sql |-> NormSql(AcceptedSql(line))]

\* One item per distinct accepted pair among the lines I of lg, counting
\* the accepted lines of the pair
ExpectedCorpus(lg, I) ==
    LET acc == {i \in I : Accepted(lg[i])}
    IN {[q |-> PairOf(lg[i]).q, sql |-> PairOf(lg[i]).sql,
         count |-> Cardinality({j \in acc : PairOf(lg[j]) = PairOf(lg[i])})]
        : i \in acc}

\* The locals of one crash-free ingest() that reads all of lg from empty stores
RECURSIVE ReadAll(_, _)
ReadAll(L, lg) ==
    IF lg = <<>> THEN L
    ELSE ReadAll(ProcessLine(L, Head(lg), LineBytes(Head(lg))), Tail(lg))

\* Every call has ended and the checkpoint stands at the end of the log
Consumed == AllIdle /\ ReadOffset = LogBytes(log)

(***************************************************************************)
(* The candidate generator (nl2sql.py: generate_candidates) and what it    *)
(* reads: the learned schema (learner.py), the static and the dynamic      *)
(* templates, the user corpus and the induced patterns.                    *)
(*                                                                         *)
(* Three parts of a call run outside the repository or on real numbers     *)
(* and are kept as choices among the results their code can produce:       *)
(* score_table_column (rapidfuzz similarities and PMI weights), the        *)
(* entity part of predict_filters (spaCy) and the order rank() gives the   *)
(* corpus (TF-IDF cosines).  paraphrase_questions and build_pmi feed       *)
(* score_table_column only.                                                *)
(***************************************************************************)
SetMin(S) == CHOOSE x \in S : \A y \in S : x <= y
SetMax(S) == CHOOSE x \in S : \A y \in S : x >= y

\* learn_schema(conn)["tables"]: the tables in name order, each with its
\* columns, the columns whose samples are numbers or dates, and the sampled
\* string values of the others
T_claims ==
    [name |-> "claims",
     columns |-> <<"claim_id", "status", "created_at">>,
     is_numeric |-> {"claim_id"},
     is_date |-> {"created_at"},
     samples |-> [c \in {"claim_id", "status", "created_at"} |->
                     CASE c = "claim_id" -> <<"1", "3", "5">>
                       [] c = "status" -> <<"open", "closed">>
                       [] OTHER -> <<"2024-01-05">>]]
T_orders ==
    [name |-> "orders",
     columns |-> <<"id", "user_id", "total">>,
     is_numeric |-> {"id", "user_id", "total"},
     is_date |-> {},
     samples |-> [c \in {"id", "user_id", "total"} |-> <<"1", "3">>]]
T_users ==
    [name |-> "users",
     columns |-> <<"id", "name">>,
     is_numeric |-> {"id"},
     is_date |-> {},
     samples |-> [c \in {"id", "name"} |->
                     IF c = "id" THEN <<"1", "3">> ELSE <<"ann", "bob">>]]

\* conn is None, or a database without tables: {"tables": {}, "columns": {}}
NoTables == <<>>
ClaimsDb == <<T_claims>>
ShopDb == <<T_orders, T_users>>
\* Two tables that no column joins
LooseDb == <<T_claims, T_users>>
\* users keyed by user_id, without a column id
T_users_keyed ==
    [name |-> "users",
     columns |-> <<"user_id", "name">>,
     is_numeric |-> {"user_id"},
     is_date |-> {},
     samples |-> [c \in {"user_id", "name"} |->
                     IF c = "user_id" THEN <<"1", "3">> ELSE <<"ann", "bob">>]]
KeyedDb == <<T_orders, T_users_keyed>>
Schemas == {NoTables, ClaimsDb, ShopDb}

TableNames(learned) == {learned[i].name : i \in 1..Len(learned)}
Tab(learned, t) == learned[CHOOSE i \in 1..Len(learned) : learned[i].name = t]
SeqToSet(s) == {s[i] : i \in 1..Len(s)}

\* str.rstrip("s") on the names of the schemas
RStripS(w) ==
    CASE w = "claims" -> "claim"
      [] w = "policies" -> "policie"
      [] w = "policy_holders" -> "policy_holder"
      [] w = "items" -> "item"
      [] w = "orders" -> "order"
      [] w = "users" -> "user"
      [] w = "status" -> "statu"
      [] OTHER -> w

\* c.endswith("_id") and c[:-3]
EndsWithId(c) == c \in {"claim_id", "item_id", "order_id", "policy_id",
                        "user_id"}
StemOfId(c) ==
    CASE c = "claim_id" -> "claim"
      [] c = "policy_id" -> "policy"
      [] c = "item_id" -> "item"
      [] c = "order_id" -> "order"
      [] OTHER -> "user"

\* ID_LIKE: (^|_)(id|number)$
IdLike(c) == c \in {"id", "claim_id", "item_id", "order_id", "policy_id",
                    "user_id"}

\* lex.py: singular and surface_forms of a table name
Singular(w) ==
    CASE w = "claims" -> "claim"
      [] w = "items" -> "item"
      [] w = "policies" -> "policy"
      [] w = "policy_holders" -> "policy_holder"
      [] w = "orders" -> "order"
      [] w = "users" -> "user"
      [] OTHER -> w
SurfaceForms(name) == {name, Singular(name)}

\* nlp.py: the stop list of tokens()
STOP == {"the", "a", "an", "in", "at", "by", "for", "of", "to", "on", "with",
         "show", "list", "display", "give", "me", "how", "many", "what",
         "which", "where", "when", "is", "are", "do", "does", "all", "any",
         "and", "or", "from", "table", "column", "rows", "records",
         "entries", "unique", "distinct", "top", "first", "within"}

\* t.lemma_ of the spaCy pipeline on the nouns of the questions
Lemma(w) ==
    CASE w = "claims" -> "claim"
      [] w = "orders" -> "order"
      [] w = "users" -> "user"
      [] w = "rows" -> "row"
      [] OTHER -> w

\* nlp.py: keywords(text) = tokens(text)
Keywords(text) ==
    LET lems == [i \in 1..Len(Split(text)) |-> Lemma(LowerLex(Split(text)[i]))]
    IN SelectSeq(lems, LAMBDA w : w \notin STOP /\ w \notin OneChar)

\* nlp.py: synonyms_for(tok) with no learned aliases: the token, its
\* curated synonyms (SYN) and its plural, or its text less a final "s"
SynonymsFor(tok) ==
    CASE tok = "status" -> {"status", "state", "stage", "statu"}
      [] tok = "users" -> {"users", "user", "accounts", "members",
                           "user_account"}
      [] tok = "claims" -> {"claims", "claim"}
      [] tok = "orders" -> {"orders", "order"}
      [] OTHER -> {tok, tok \o "s"}

(***************************************************************************)
(* The intent patterns RE_*, matched on the words of the question (re.I);  *)
(* the questions of the model separate their words by blanks.              *)
(***************************************************************************)
Words(q) == Lower(Split(q))
NoMatch == [hit |-> FALSE]

\* RE_UNIQUE: (unique|distinct) <col_like, greedy> in <tab_like>
MatchUnique(W) ==
    LET starts == {i \in 1..Len(W) :
                      /\ W[i] \in {"unique", "distinct"}
                      /\ \E j \in (i + 2)..(Len(W) - 1) : W[j] = "in"}
    IN IF starts = {} THEN NoMatch
       ELSE LET i == SetMin(starts)
                j == SetMax({k \in (i + 2)..(Len(W) - 1) : W[k] = "in"})
            IN [hit |-> TRUE, col_like |-> SubSeq(W, i + 1, j - 1),
                tab_like |-> SubSeq(W, j + 1, Len(W))]

\* RE_COUNT_DISTINCT: how many <col_like, lazy> in <tab_like>
MatchCountDistinct(W) ==
    LET starts == {i \in 1..Len(W) :
                      /\ W[i] = "how" /\ i + 1 <= Len(W) /\ W[i + 1] = "many"
                      /\ \E j \in (i + 3)..(Len(W) - 1) : W[j] = "in"}
    IN IF starts = {} THEN NoMatch
       ELSE LET i == SetMin(starts)
                j == SetMin({k \in (i + 3)..(Len(W) - 1) : W[k] = "in"})
            IN [hit |-> TRUE, col_like |-> SubSeq(W, i + 2, j - 1),
                tab_like |-> SubSeq(W, j + 1, Len(W))]

\* RE_COUNT_ROWS: how many (rows|records|entries) in <tab_like>
MatchCountRows(W) ==
    LET starts == {i \in 1..(Len(W) - 4) :
                      /\ W[i] = "how" /\ W[i + 1] = "many"
                      /\ W[i + 2] \in {"rows", "records", "entries"}
                      /\ W[i + 3] = "in"}
    IN IF starts = {} THEN NoMatch
       ELSE [hit |-> TRUE,
             tab_like |-> SubSeq(W, SetMin(starts) + 4, Len(W))]

\* RE_TOPK_IN_BY: top <k> <colA_like> in <tab_like> by <colB_like>
MatchTopKInBy(W) ==
    LET ins(i) == {j \in (i + 3)..(Len(W) - 3) :
                      /\ W[j] = "in"
                      /\ \E k \in (j + 2)..(Len(W) - 1) : W[k] = "by"}
        starts == {i \in 1..Len(W) :
                      /\ W[i] = "top" /\ i + 1 <= Len(W) /\ W[i + 1] \in Digits
                      /\ ins(i) # {}}
    IN IF starts = {} THEN NoMatch
       ELSE LET i == SetMin(starts)
                j == SetMax(ins(i))
                k == SetMax({n \in (j + 2)..(Len(W) - 1) : W[n] = "by"})
            IN [hit |-> TRUE, k |-> W[i + 1],
                colA_like |-> SubSeq(W, i + 2, j - 1),
                tab_like |-> SubSeq(W, j + 1, k - 1),
                colB_like |-> SubSeq(W, k + 1, Len(W))]

\* RE_TOPK_WITH_HIGHEST: top <k> <ent_like, lazy> with highest <met_like>
MatchTopKWithHighest(W) ==
    LET withs(i) == {j \in (i + 3)..(Len(W) - 2) :
                        W[j] = "with" /\ W[j + 1] = "highest"}
        starts == {i \in 1..Len(W) :
                      /\ W[i] = "top" /\ i + 1 <= Len(W) /\ W[i + 1] \in Digits
                      /\ withs(i) # {}}
    IN IF starts = {} THEN NoMatch
       ELSE LET i == SetMin(starts)
                j == SetMin(withs(i))
            IN [hit |-> TRUE, k |-> W[i + 1],
                ent_like |-> SubSeq(W, i + 2, j - 1),
                met_like |-> SubSeq(W, j + 2, Len(W))]

\* RE_SHOW_LIST: the word show or list
MatchShowList(W) == \E i \in 1..Len(W) : W[i] \in {"show", "list"}

\* RE_YEAR_IN: <tab_like> in <year>; year: the first (19|20)\d{2} of q
MatchYearIn(W) ==
    LET ins == {j \in 2..(Len(W) - 1) : W[j] = "in" /\ W[j + 1] \in Years}
    IN IF ins = {} THEN NoMatch
       ELSE [hit |-> TRUE, tab_like |-> SubSeq(W, 1, SetMax(ins) - 1),
             year |-> W[SetMin({i \in 1..Len(W) : W[i] \in Years})]]

\* templates.py: TEMPLATES, each text as its lexemes
TEMPLATES == <<
  [q |->
      <<"how", WS, "many", WS, "policies", WS, "are", WS, "active">>,
   sql |->
      <<"SELECT", WS, "COUNT", "(", "*", ")", WS, "AS", WS,
        "active_policies", WS, "FROM", WS, "policies", WS, "WHERE", WS,
        "status", "=", "'", "ACTIVE", "'">>],
  [q |->
      <<"list", WS, "top", WS, "{k}", WS, "organizations", WS, "by", WS,
        "total", WS, "credit", WS, "limit">>,
   sql |->
      <<"SELECT", WS, "o.org_name", ",", WS, "SUM", "(", "p.credit_limit",
        ")", WS, "AS", WS, "total_limit", WS, "FROM", WS, "organizations",
        WS, "o", WS, "JOIN", WS, "policies", WS, "p", WS, "ON", WS,
        "p.org_id", "=", "o.org_id", WS, "GROUP", WS, "BY", WS,
        "o.org_name", WS, "ORDER", WS, "BY", WS, "total_limit", WS, "DESC",
        WS, "LIMIT", WS, "{k}">>],
  [q |->
      <<"show", WS, "claims", WS, "for", WS, "policy", WS,
        "{policy_number}">>,
   sql |->
      <<"SELECT", WS, "c.claim_number", ",", WS, "c.created_at", ",", WS,
        "c.amount", ",", WS, "c.status", WS, "FROM", WS, "claims", WS, "c",
        WS, "JOIN", WS, "policies", WS, "p", WS, "ON", WS, "p.policy_id",
        "=", "c.policy_id", WS, "WHERE", WS, "p.policy_number", WS, "=",
        WS, "'", "{policy_number}", "'", WS, "ORDER", WS, "BY", WS,
        "c.created_at", WS, "DESC">>],
  [q |->
      <<"which", WS, "policies", WS, "expired", WS, "in", WS, "{year}">>,
   sql |->
      <<"SELECT", WS, "policy_number", ",", WS, "expiry_date", ",", WS,
        "status", WS, "FROM", WS, "policies", WS, "WHERE", WS, "substr",
        "(", "expiry_date", ",", "1", ",", "4", ")", WS, "=", WS, "'",
        "{year}", "'", WS, "ORDER", WS, "BY", WS, "expiry_date", WS,
        "DESC">>],
  [q |->
      <<"find", WS, "organizations", WS, "in", WS, "{city}">>,
   sql |->
      <<"SELECT", WS, "org_code", ",", WS, "org_name", ",", WS, "city",
        ",", WS, "country_code", WS, "FROM", WS, "organizations", WS,
        "WHERE", WS, "lower", "(", "city", ")", WS, "LIKE", WS, "'", "%",
        "{city_lc}", "%", "'", WS, "ORDER", WS, "BY", WS, "org_name", WS,
        "LIMIT", WS, "100">>]
>>

(***************************************************************************)
(* predictor.py                                                            *)
(***************************************************************************)
\* The hard hint of score_table_column: a token names a table
HardHint(learned, toks) ==
    \E i \in 1..Len(learned) : \E k \in 1..Len(toks) :
        toks[k] \in {learned[i].name, RStripS(learned[i].name)}

\* score_table_column(learned, q_tokens): the (table, column) pairs the
\* scoring loop can leave in best.  Without tokens every score is 0 and
\* best stays (None, None); with a hard hint the hinted table scores above
\* 0, so best names a table.
ScoreTableColumn(learned, toks) ==
    LET named == UNION {{[t |-> learned[i].name, c |-> c] :
                            c \in SeqToSet(learned[i].columns) \cup {None}} :
                        i \in 1..Len(learned)}
        none == {[t |-> None, c |-> None]}
    IN IF toks = <<>> \/ learned = <<>> THEN none
       ELSE IF HardHint(learned, toks) THEN named
       ELSE named \cup none

\* predict_numbers(q)[1]: the first year-like number of the question
PredictYear(W) ==
    IF \E i \in 1..Len(W) : W[i] \in Years
    THEN W[SetMin({i \in 1..Len(W) : W[i] \in Years})]
    ELSE None

\* predict_filters(learned, q): a keyword of the question that is a sampled
\* string value gives the filter (table, column, value) of the first table
\* and column sampling it; the entity part adds values spaCy tags, here none
FilterOf(learned, v) ==
    LET hits == UNION {{<<i, k>> : k \in {n \in 1..Len(learned[i].columns) :
                          /\ learned[i].columns[n] \notin learned[i].is_numeric
                          /\ v \in SeqToSet(learned[i].samples[learned[i].columns[n]])}} :
                       i \in 1..Len(learned)}
        first == CHOOSE h \in hits : \A g \in hits :
                    h[1] < g[1] \/ (h[1] = g[1] /\ h[2] <= g[2])
    IN IF hits = {} THEN <<>>
       ELSE <<[t |-> learned[first[1]].name,
               c |-> learned[first[1]].columns[first[2]], v |-> v]>>

RECURSIVE PredictFilters(_, _)
PredictFilters(learned, toks) ==
    IF toks = <<>> THEN <<>>
    ELSE LET rest == PredictFilters(learned, Tail(toks))
             f == FilterOf(learned, Head(toks))
         IN f \o SelectSeq(rest, LAMBDA x : f = <<>> \/ x # f[1])

(***************************************************************************)
(* nl2sql.py: _pick_distinct_column                                        *)
(***************************************************************************)
\* name.replace("_", " ").split() on the column names
UnderWords(c) ==
    CASE c = "claim_id" -> <<"claim", "id">>
      [] c = "created_at" -> <<"created", "at">>
      [] c = "user_id" -> <<"user", "id">>
      [] OTHER -> <<c>>

RECURSIVE FlattenWords(_)
FlattenWords(W) ==
    IF W = <<>> THEN <<>> ELSE UnderWords(Head(W)) \o FlattenWords(Tail(W))

\* Python's string order on the column names
ColOrder == <<"claim_id", "created_at", "id", "name", "status", "total",
              "user_id">>
ColRank(c) == CHOOSE i \in 1..Len(ColOrder) : ColOrder[i] = c

\* cat_key: (len(samples.get(c, [])) or 10_000, c)
CatLess(tb, a, b) ==
    LET ka == IF Len(tb.samples[a]) = 0 THEN 10000 ELSE Len(tb.samples[a])
        kb == IF Len(tb.samples[b]) = 0 THEN 10000 ELSE Len(tb.samples[b])
    IN ka < kb \/ (ka = kb /\ ColRank(a) < ColRank(b))

\* Faulty variant: the identifier-like columns stay in the pool
PickDistinctColumnAnyColumn(learned, table, col_like) ==
    LET tb == Tab(learned, table)
        cols == tb.columns
        exact == {i \in 1..Len(cols) : UnderWords(cols[i]) = FlattenWords(col_like)}
    IN IF exact # {} THEN cols[SetMin(exact)]
       ELSE CHOOSE c \in SeqToSet(cols) :
                \A d \in SeqToSet(cols) : d = c \/ CatLess(tb, c, d)

\* _pick_distinct_column(learned, table, col_like_phrase)
PickDistinctColumn(learned, table, col_like) ==
    LET tb == Tab(learned, table)
        cols == tb.columns
        exact == {i \in 1..Len(cols) : UnderWords(cols[i]) = FlattenWords(col_like)}
        nonId == SelectSeq(cols, LAMBDA c : ~IdLike(c))
        pool == IF nonId # <<>> THEN nonId ELSE cols
    IN IF exact # {} THEN cols[SetMin(exact)]
       ELSE CHOOSE c \in SeqToSet(pool) :
                \A d \in SeqToSet(pool) : d = c \/ CatLess(tb, c, d)

(***************************************************************************)
(* joins.py                                                                *)
(***************************************************************************)
\* infer_fk_map: the table a column <other>_id of t points to, or None
FkTarget(learned, t, c) ==
    LET other == StemOfId(c)
        cand == {i \in 1..Len(learned) :
                    /\ learned[i].name # t
                    /\ \/ learned[i].name = other
                       \/ RStripS(learned[i].name) = RStripS(other)}
    IN IF EndsWithId(c) /\ cand # {} THEN learned[SetMin(cand)].name ELSE None

\* fk[(t1, t2)]: the last column of t1 that points to t2, or None
InferFkMap(learned, t1, t2) ==
    LET cols == Tab(learned, t1).columns
        hits == {k \in 1..Len(cols) : FkTarget(learned, t1, cols[k]) = t2}
    IN IF hits = {} THEN None ELSE cols[SetMax(hits)]

\* surfaces[s] = t: the last table with the surface s
SurfaceTable(learned, w) ==
    LET hits == {i \in 1..Len(learned) :
                    w \in SurfaceForms(learned[i].name) \cup {learned[i].name}}
    IN IF hits = {} THEN None ELSE learned[SetMax(hits)].name

RECURSIVE DedupeSeq(_, _)
DedupeSeq(s, out) ==
    IF s = <<>> THEN out
    ELSE DedupeSeq(Tail(s),
                   IF Head(s) \in SeqToSet(out) THEN out ELSE Append(out, Head(s)))

\* two_table_candidates(tokens, learned)
TwoTableCandidates(toks, learned) ==
    LET hits == SelectSeq([i \in 1..Len(toks) |-> SurfaceTable(learned, toks[i])],
                          LAMBDA t : t # None)
        pairs == [i \in 1..(IF Len(hits) = 0 THEN 0 ELSE Len(hits) - 1) |->
                     <<hits[i], hits[i + 1]>>]
    IN DedupeSeq(SelectSeq(pairs, LAMBDA p : p[1] # p[2]), <<>>)

Col(t, c) == t \o "." \o c

\* join_sql(src, col, dst) of synthesize_join_templates
JoinSql(learned, src, col, dst) ==
    <<"SELECT", WS, Col(src, Tab(learned, src).columns[1]), ",", WS,
      Col(dst, Tab(learned, dst).columns[1]), NL,
      "FROM", WS, src, WS, NL,
      "JOIN", WS, dst, WS, "ON", WS, Col(src, col), WS, "=", WS,
      Col(dst, "id"), NL,
      "LIMIT", WS, "200">>

\* The count ... by and sum by ... templates of synthesize_join_templates
JoinAggSql(src, col, dst, expr, alias) ==
    <<"SELECT", WS, Col(dst, "id"), ",", WS>> \o expr \o
    <<WS, "AS", WS, alias, WS, "FROM", WS, src, WS, "JOIN", WS, dst, WS,
      "ON", WS, Col(src, col), "=", Col(dst, "id"), WS, "GROUP", WS, "BY",
      WS, Col(dst, "id"), WS, "ORDER", WS, "BY", WS, alias, WS, "DESC", WS,
      "LIMIT", WS, "200">>

JoinItems(learned, a, b) ==
    LET col == InferFkMap(learned, a, b)
    IN IF col = None THEN <<>>
       ELSE <<[q |-> <<"show", WS, a, WS, "with", WS, b>>,
               sql |-> JoinSql(learned, a, col, b)],
              [q |-> <<"count", WS, a, WS, "by", WS, b>>,
               sql |-> JoinAggSql(a, col, b, <<"COUNT", "(", "*", ")">>, "n")],
              [q |-> <<"sum", WS, "by", WS, b, WS, "in", WS, a>>,
               sql |-> JoinAggSql(a, col, b, <<"SUM", "(", "1", ")">>, "s")]>>

\* synthesize_join_templates(learned, t1, t2)
SynthesizeJoinTemplates(learned, t1, t2) ==
    JoinItems(learned, t1, t2) \o JoinItems(learned, t2, t1)

\* _pk_for(learned, table)
PkFor(learned, table) ==
    LET cols == Tab(learned, table).columns
        ids == {k \in 1..Len(cols) : EndsWithId(cols[k])}
    IN IF "id" \in SeqToSet(cols) THEN "id"
       ELSE IF RStripS(table) \o "_id" \in SeqToSet(cols)
            THEN RStripS(table) \o "_id"
       ELSE IF ids # {} THEN cols[SetMin(ids)]
       ELSE cols[1]

\* stem in u
Contains(stem, u) ==
    stem = u \/ <<stem, u>> \in {<<"claim", "claims">>, <<"item", "items">>,
                                 <<"order", "orders">>, <<"user", "users">>,
                                 <<"policy", "policy_holders">>}

\* The first table of the three searches of infer_fk_edges that has one
FirstHit(r1, r2, r3) == IF r1 # {} THEN r1 ELSE IF r2 # {} THEN r2 ELSE r3

EdgeTo(learned, t, c, hit) ==
    IF ~EndsWithId(c) \/ hit = {} THEN <<>>
    ELSE <<[L |-> t, Lcol |-> c, R |-> learned[SetMin(hit)].name,
            Rpk |-> PkFor(learned, learned[SetMin(hit)].name)]>>

\* infer_fk_edges: the edge of column c of table t, <<>> when it has none
FkEdge(learned, t, c) ==
    EdgeTo(learned, t, c,
        FirstHit({i \in 1..Len(learned) :
                     /\ learned[i].name # t
                     /\ c = PkFor(learned, learned[i].name)},
                 {i \in 1..Len(learned) :
                     /\ learned[i].name # t
                     /\ \/ learned[i].name = StemOfId(c)
                        \/ RStripS(learned[i].name) = RStripS(StemOfId(c))},
                 {i \in 1..Len(learned) :
                     /\ learned[i].name # t
                     /\ \/ Contains(StemOfId(c), learned[i].name)
                        \/ Contains(learned[i].name, StemOfId(c))}))

\* _adjacency(learned)[t]: the edges leaving t, in column order
RECURSIVE EdgesOf(_, _, _)
EdgesOf(learned, t, cols) ==
    IF cols = <<>> THEN <<>>
    ELSE FkEdge(learned, t, Head(cols)) \o EdgesOf(learned, t, Tail(cols))

Adjacency(learned, t) ==
    IF t \in TableNames(learned) THEN EdgesOf(learned, t, Tab(learned, t).columns)
    ELSE <<>>

\* The two-hop search of find_join_path over the edges adj of src: the
\* pairs (i, j) of an edge of src and an edge of its target that reaches dst
TwoHops(learned, adj, dst) ==
    UNION {{<<i, j>> : j \in {n \in 1..Len(Adjacency(learned, adj[i].R)) :
                                Adjacency(learned, adj[i].R)[n].R = dst}} :
           i \in 1..Len(adj)}

FirstTwoHop(two) ==
    CHOOSE h \in two : \A g \in two :
        h[1] < g[1] \/ (h[1] = g[1] /\ h[2] <= g[2])

TwoHopSteps(learned, adj, first) ==
    <<adj[first[1]], Adjacency(learned, adj[first[1]].R)[first[2]]>>

\* Faulty variant: the test src == dst is left out
PathOverNoSelfTest(learned, src, dst, adj, one, two) ==
    IF one # {} THEN [found |-> TRUE, steps |-> <<adj[SetMin(one)]>>]
    ELSE IF two # {}
         THEN [found |-> TRUE,
               steps |-> TwoHopSteps(learned, adj, FirstTwoHop(two))]
    ELSE [found |-> FALSE, steps |-> <<>>]

PathOver(learned, src, dst, adj, one, two) ==
    IF src = dst THEN [found |-> TRUE, steps |-> <<>>]
    ELSE IF one # {} THEN [found |-> TRUE, steps |-> <<adj[SetMin(one)]>>]
    ELSE IF two # {}
         THEN [found |-> TRUE,
               steps |-> TwoHopSteps(learned, adj, FirstTwoHop(two))]
    ELSE [found |-> FALSE, steps |-> <<>>]

\* Faulty variant: the search stops after the direct edges
PathFromDirectOnly(learned, src, dst, adj) ==
    PathOver(learned, src, dst, adj, {i \in 1..Len(adj) : adj[i].R = dst}, {})

PathFrom(learned, src, dst, adj) ==
    PathOver(learned, src, dst, adj,
             {i \in 1..Len(adj) : adj[i].R = dst}, TwoHops(learned, adj, dst))

\* find_join_path(learned, src, dst): no hop, one hop, two hops, or None
FindJoinPath(learned, src, dst) ==
    PathFrom(learned, src, dst, Adjacency(learned, src))

\* c.endswith("_number")
EndsWithNumber(c) == c \in {"policy_number", "claim_number", "invoice_number"}

\* _guess_label_column(learned, table)
LabelPrio == <<"org_name", "organization_name", "org_code", "name",
               "display_name", "username", "policy_number", "claim_number",
               "invoice_number", "title">>
GuessLabelColumn(learned, table) ==
    LET cols == Tab(learned, table).columns
        prio == {i \in 1..Len(LabelPrio) : LabelPrio[i] \in SeqToSet(cols)}
        text == {k \in 1..Len(cols) :
                    ~EndsWithId(cols[k]) /\ ~EndsWithNumber(cols[k])}
    IN IF prio # {} THEN LabelPrio[SetMin(prio)]
       ELSE IF text # {} THEN cols[SetMin(text)]
       ELSE None

\* A step written from the table reached so far
StepFrom(s, left) ==
    IF s.L # left THEN [L |-> s.R, Lcol |-> s.Rpk, R |-> s.L, Rpk |-> s.Lcol]
    ELSE s

JoinLine(st) ==
    <<"JOIN", WS, st.R, WS, "ON", WS, Col(st.L, st.Lcol), WS, "=", WS,
      Col(st.R, st.Rpk), NL>>

\* The JOIN lines of synthesize_aggregate_join
RECURSIVE JoinChain(_, _)
JoinChain(steps, left) ==
    IF steps = <<>> THEN <<>>
    ELSE JoinLine(StepFrom(Head(steps), left))
         \o JoinChain(Tail(steps), StepFrom(Head(steps), left).R)

\* The text of synthesize_aggregate_join over a path found from start
AggJoinText(target, steps, start, t_pk, label, expr, alias, k) ==
    <<"SELECT", WS, Col(target, t_pk), WS, "AS", WS, target \o "_id">>
    \o (IF label = None THEN <<>>
        ELSE <<",", WS, Col(target, label), WS, "AS", WS, label>>)
    \o <<",", WS>> \o expr \o <<WS, "AS", WS, alias>>
    \o <<NL, "FROM", WS, start, NL>>
    \o JoinChain(steps, start)
    \o <<"GROUP", WS, "BY", WS, Col(target, t_pk)>>
    \o (IF label = None THEN <<>> ELSE <<",", WS, Col(target, label)>>)
    \o <<NL, "ORDER", WS, "BY", WS, alias, WS, "DESC", NL, "LIMIT", WS, k>>

AggJoinOver(learned, target, metric, metric_col, k, agg, fwd, bwd) ==
    IF ~fwd.found /\ ~bwd.found THEN <<>>
    ELSE AggJoinText(target,
                     IF fwd.found THEN fwd.steps ELSE bwd.steps,
                     IF fwd.found THEN target ELSE metric,
                     PkFor(learned, target), GuessLabelColumn(learned, target),
                     IF agg = "COUNT" THEN <<"COUNT", "(", "*", ")">>
                     ELSE <<"SUM", "(", Col(metric, metric_col), ")">>,
                     IF agg = "COUNT"
                     THEN (IF metric = "users" THEN "user_count" ELSE "row_count")
                     ELSE "sum_" \o metric_col,
                     k)

\* synthesize_aggregate_join(learned, target_table, metric_table,
\* metric_col, k, agg): the query text, <<>> for None
SynthesizeAggregateJoin(learned, target, metric, metric_col, k, agg) ==
    AggJoinOver(learned, target, metric, metric_col, k, agg,
                FindJoinPath(learned, target, metric),
                FindJoinPath(learned, metric, target))

(***************************************************************************)
(* dynamic_templates.py: generate_dynamic_corpus                           *)
(***************************************************************************)
Item(q, sql) == [q |-> q, sql |-> sql]

RECURSIVE CommaList(_)
CommaList(names) ==
    IF Len(names) <= 1 THEN names
    ELSE <<Head(names), ",", WS>> \o CommaList(Tail(names))

\* The two items of a table
TableItems(tb) ==
    <<Item(<<"how", WS, "many", WS, "rows", WS, "in", WS, tb.name>>,
           <<"SELECT", WS, "COUNT", "(", "*", ")", WS, "AS", WS, "row_count",
             WS, "FROM", WS, tb.name>>),
      Item(<<"list", WS, "columns", WS, "of", WS, tb.name>>,
           <<"-", "-", WS, "columns", ":", WS>> \o CommaList(tb.columns))>>

\* "... WHERE substr(c,1,4)='year' LIMIT 200"
YearItem(t, c, year) ==
    Item(<<t, WS, "in", WS, year>>,
         <<"SELECT", WS, "*", WS, "FROM", WS, t, WS, "WHERE", WS, "substr",
           "(", c, ",", "1", ",", "4", ")", "=", "'", year, "'", WS,
           "LIMIT", WS, "200">>)

\* The item of a sampled string value
RECURSIVE ValueItems(_, _, _)
ValueItems(t, c, vals) ==
    IF vals = <<>> THEN <<>>
    ELSE <<Item(<<"show", WS, t, WS, "where", WS, c, WS, "=", WS, Head(vals)>>,
                <<"SELECT", WS, "*", WS, "FROM", WS, t, WS, "WHERE", WS,
                  "LOWER", "(", c, ")", WS, "=", WS, "'", Head(vals), "'",
                  WS, "LIMIT", WS, "200">>)>>
         \o ValueItems(t, c, Tail(vals))

\* The items of a column
ColumnItems(tb, c) ==
    LET t == tb.name
        other == IF tb.columns[1] # c THEN tb.columns[1] ELSE tb.columns[2]
    IN <<Item(<<"unique", WS, c, WS, "in", WS, t>>,
              <<"SELECT", WS, "DISTINCT", WS, c, WS, "FROM", WS, t, WS,
                "ORDER", WS, "BY", WS, c, WS, "LIMIT", WS, "200">>),
         Item(<<"how", WS, "many", WS, c, WS, "in", WS, t>>,
              <<"SELECT", WS, "COUNT", "(", "DISTINCT", WS, c, ")", WS, "AS",
                WS, "distinct_" \o c \o "_count", WS, "FROM", WS, t>>),
         Item(<<"count", WS, "by", WS, c, WS, "in", WS, t>>,
              <<"SELECT", WS, c, ",", WS, "COUNT", "(", "*", ")", WS, "AS", WS,
                "n", WS, "FROM", WS, t, WS, "GROUP", WS, "BY", WS, c, WS,
                "ORDER", WS, "BY", WS, "n", WS, "DESC", WS, "LIMIT", WS,
                "200">>)>>
       \o (IF c \notin tb.is_numeric THEN <<>>
           ELSE <<Item(<<"sum", WS, c, WS, "in", WS, t>>,
                       <<"SELECT", WS, "SUM", "(", c, ")", WS, "AS", WS,
                         "sum_" \o c, WS, "FROM", WS, t>>),
                  Item(<<"average", WS, c, WS, "in", WS, t>>,
                       <<"SELECT", WS, "AVG", "(", c, ")", WS, "AS", WS,
                         "avg_" \o c, WS, "FROM", WS, t>>)>>
                \o (IF Len(tb.columns) < 2 THEN <<>>
                    ELSE <<Item(<<"top", WS, "10", WS, other, WS, "in", WS, t,
                                  WS, "by", WS, c>>,
                                <<"SELECT", WS, other, ",", WS, "SUM", "(", c,
                                  ")", WS, "AS", WS, "s", WS, "FROM", WS, t,
                                  WS, "GROUP", WS, "BY", WS, other, WS,
                                  "ORDER", WS, "BY", WS, "s", WS, "DESC", WS,
                                  "LIMIT", WS, "10">>)>>))
       \o (IF c \notin tb.is_date THEN <<>>
           ELSE <<YearItem(t, c, "2024"), YearItem(t, c, "2025")>>)
       \o (IF c \in tb.is_numeric THEN <<>>
           ELSE ValueItems(t, c, SubSeq(tb.samples[c], 1,
                                        IF Len(tb.samples[c]) < 5
                                        THEN Len(tb.samples[c]) ELSE 5)))

RECURSIVE ColumnsItems(_, _)
ColumnsItems(tb, cols) ==
    IF cols = <<>> THEN <<>>
    ELSE ColumnItems(tb, Head(cols)) \o ColumnsItems(tb, Tail(cols))

\* generate_dynamic_corpus(learned)
RECURSIVE GenerateDynamicCorpus(_)
GenerateDynamicCorpus(learned) ==
    IF learned = <<>> THEN <<>>
    ELSE TableItems(Head(learned))
         \o ColumnsItems(Head(learned), Head(learned).columns)
         \o GenerateDynamicCorpus(Tail(learned))

(***************************************************************************)
(* nl2sql.py: helpers of generate_candidates                               *)
(***************************************************************************)
\* _strip_sql: strip(), then rstrip(";")
RECURSIVE RStripSemi(_)
RStripSemi(s) ==
    IF s # <<>> /\ s[Len(s)] = ";" THEN RStripSemi(SubSeq(s, 1, Len(s) - 1))
    ELSE s

\* Faulty variant: a row cap appended to every text
StripSqlAddsLimit(sql) == RStripSemi(Strip(sql)) \o <<WS, "LIMIT", WS, "200">>

StripSql(sql) == RStripSemi(Strip(sql))

\* The part of a lexeme that [a-z_][\w]* matches at its start, "" if none
SqlPunct == {"(", ")", ",", "=", "'", "*", ";", ":", "-", "%"}
IdentHead(w) ==
    IF w \in ColRefLex THEN "claims"
    ELSE IF w \in SqlPunct \cup Digits \cup Space THEN ""
    ELSE w

\* The identifiers that follow a keyword of kws and whitespace
IdentsAfter(sql, kws) ==
    {IdentHead(sql[j]) : j \in {k \in 3..Len(sql) :
        /\ sql[k] \notin Space /\ sql[k - 1] \in Space
        /\ \E i \in 1..(k - 2) :
              /\ sql[i] \in kws
              /\ \A n \in (i + 1)..(k - 1) : sql[n] \in Space}} \ {""}

\* _sql_tables(sql): SQL_TABLE_RE and SQL_JOIN_RE
SqlTables(sql) == IdentsAfter(sql, {"FROM", "from", "JOIN", "join"})

\* _sql_distinct_cols(sql): SQL_DISTINCT_COL_RE
SqlDistinctCols(sql) ==
    {IdentHead(sql[j]) : j \in {k \in 5..Len(sql) :
        /\ sql[k] \notin Space /\ sql[k - 1] \in Space
        /\ \E d \in 3..(k - 2) :
              /\ sql[d] \in {"DISTINCT", "distinct"}
              /\ \A n \in (d + 1)..(k - 1) : sql[n] \in Space
              /\ sql[d - 1] \in Space
              /\ \E i \in 1..(d - 2) :
                    /\ sql[i] \in {"SELECT", "select"}
                    /\ \A n \in (i + 1)..(d - 1) : sql[n] \in Space}} \ {""}

\* c_pred in seg, on column names
InName(a, b) ==
    a = b \/ <<a, b>> \in {<<"id", "claim_id">>, <<"id", "user_id">>}

\* The pattern materialization loop: {K} -> 10
MaterializeK(s) == [i \in 1..Len(s) |-> IF s[i] = "{K}" THEN "10" ELSE s[i]]
PatCorpus(patterns) ==
    [i \in 1..(IF Len(patterns) < 50 THEN Len(patterns) ELSE 50) |->
        Item(MaterializeK(patterns[i].q_pat), MaterializeK(patterns[i].sql_pat))]

\* Candidate(sql, score, rationale); scores in units of 0.00001, the
\* rationale as its fixed text, the question it quotes and the count
Candidate(sql, score, kind, q, count) ==
    [sql |-> sql, score |-> score,
     rationale |-> [kind |-> kind, q |-> q, count |-> count]]
RuleCand(sql, score, kind) == Candidate(sql, score, kind, <<>>, 0)

ScoreUnique == 99000
ScoreCountDistinct == 95000
ScoreCountRows == 94000
ScoreTopKInBy == 90000
ScoreYear == 88000
ScoreShowList == 88000
ScoreJoin == 83000
ScoreTopKCount == 96000
ScoreTopKMetric == 94000
ScoreFallback == 40000
TopK == 8

\* The first date-like column of table t, None if there is none
DateCol(learned, t) ==
    LET cols == Tab(learned, t).columns
        ds == {k \in 1..Len(cols) : cols[k] \in Tab(learned, t).is_date}
    IN IF ds = {} THEN None ELSE cols[SetMin(ds)]

YearTest(date_col, year) ==
    <<"substr", "(", date_col, ",", "1", ",", "4", ")", "=", "'", year, "'">>

\* UNIQUE/DISTINCT <col> IN <table>
RuleUnique(learned, m, r) ==
    IF m.hit /\ learned # <<>> /\ r.t # None
    THEN LET c == PickDistinctColumn(learned, r.t, m.col_like)
         IN <<RuleCand(StripSql(<<"SELECT", WS, "DISTINCT", WS, c, WS, "FROM",
                                  WS, r.t, WS, "ORDER", WS, "BY", WS, c>>),
                       ScoreUnique,
                       "Rule: unique/distinct (resolved table/column; non-ID/categorical preference)")>>
    ELSE <<>>

\* HOW MANY <col> IN <table> -> COUNT(DISTINCT col)
RuleCountDistinct(learned, m, r) ==
    IF m.hit /\ learned # <<>> /\ r.t # None
    THEN LET c == IF r.c = None \/ EndsWithId(r.c) \/ IdLike(r.c)
                  THEN PickDistinctColumn(learned, r.t, m.col_like)
                  ELSE r.c
         IN <<RuleCand(<<"SELECT", WS, "COUNT", "(", "DISTINCT", WS, c, ")",
                         WS, "AS", WS, "distinct_" \o c \o "_count", WS,
                         "FROM", WS, r.t>>,
                       ScoreCountDistinct,
                       "Rule: count distinct column in table (ID-avoidance fallback)")>>
    ELSE <<>>

\* HOW MANY ROWS IN <table> -> COUNT(*)
RuleCountRows(learned, m, r) ==
    IF m.hit /\ learned # <<>> /\ r.t # None
    THEN <<RuleCand(<<"SELECT", WS, "COUNT", "(", "*", ")", WS, "AS", WS,
                      "row_count", WS, "FROM", WS, r.t>>,
                    ScoreCountRows, "Rule: count rows in table")>>
    ELSE <<>>

\* TOP K <colA> IN <table> BY <colB>
RuleTopKInBy(learned, m, rA, rB) ==
    IF /\ m.hit /\ learned # <<>>
       /\ rA.t # None /\ rB.t # None /\ rA.t = rB.t
       /\ rA.c # None /\ rB.c # None
    THEN <<RuleCand(StripSql(<<"SELECT", WS, rA.c, ",", WS, "SUM", "(", rB.c,
                               ")", WS, "AS", WS, "s", WS, "FROM", WS, rA.t,
                               WS, "GROUP", WS, "BY", WS, rA.c, WS, "ORDER",
                               WS, "BY", WS, "s", WS, "DESC", WS, "LIMIT", WS,
                               m.k>>),
                    ScoreTopKInBy, "Rule: top-K by aggregate")>>
    ELSE <<>>

\* <table> in <year>
RuleYear(learned, m, r) ==
    IF m.hit /\ learned # <<>> /\ r.t # None /\ DateCol(learned, r.t) # None
    THEN <<RuleCand(StripSql(<<"SELECT", WS, "*", WS, "FROM", WS, r.t, WS,
                               "WHERE", WS>>
                             \o YearTest(DateCol(learned, r.t), m.year)),
                    ScoreYear, "Rule: year filter")>>
    ELSE <<>>

\* " AND ".join(where)
RECURSIVE AndJoin(_)
AndJoin(tests) ==
    IF tests = <<>> THEN <<>>
    ELSE IF Len(tests) = 1 THEN Head(tests)
    ELSE Head(tests) \o <<WS, "AND", WS>> \o AndJoin(Tail(tests))

\* SHOW/LIST ... with the inferred equality and year filters
RuleShowList(learned, W, toks, r) ==
    IF MatchShowList(W) /\ learned # <<>> /\ r.t # None
    THEN LET fs == SelectSeq(PredictFilters(learned, toks),
                             LAMBDA f : f.t = r.t)
             eqs == [i \in 1..Len(fs) |->
                        <<"LOWER", "(", fs[i].c, ")", WS, "=", WS, "'",
                          fs[i].v, "'">>]
             year == PredictYear(W)
             where == eqs \o
                      (IF year # None /\ DateCol(learned, r.t) # None
                       THEN <<YearTest(DateCol(learned, r.t), year)>>
                       ELSE <<>>)
             where_sql == IF where = <<>> THEN <<>>
                          ELSE <<WS, "WHERE", WS>> \o AndJoin(where)
         IN <<RuleCand(StripSql(<<"SELECT", WS, "*", WS, "FROM", WS, r.t>>
                                \o where_sql),
                       ScoreShowList, "Rule: show/list with inferred filters")>>
    ELSE <<>>

\* Join discovery: the first two table pairs, three templates of each
FirstN(s, n) == SubSeq(s, 1, IF Len(s) < n THEN Len(s) ELSE n)

RECURSIVE JoinCands(_, _)
JoinCands(learned, pairs) ==
    IF pairs = <<>> THEN <<>>
    ELSE LET items == FirstN(SynthesizeJoinTemplates(learned, Head(pairs)[1],
                                                     Head(pairs)[2]), 3)
         IN [i \in 1..Len(items) |->
                Candidate(StripSql(items[i].sql), ScoreJoin, "Join discovery",
                          items[i].q, 0)]
            \o JoinCands(learned, Tail(pairs))

JoinDiscovery(learned, toks) ==
    IF learned = <<>> THEN <<>>
    ELSE JoinCands(learned, FirstN(TwoTableCandidates(toks, learned), 2))

\* Faulty variant: the candidate is appended whatever the synthesis returned
JoinRuleCandUnchecked(sql, score, kind) ==
    <<RuleCand(StripSql(sql), score, kind)>>

\* if sql: cands.append(Candidate(_strip_sql(sql), score, rationale))
JoinRuleCand(sql, score, kind) ==
    IF sql # <<>> THEN <<RuleCand(StripSql(sql), score, kind)>> ELSE <<>>

\* The words that name an organization, and the words of a count
OrgWord(w) == w \in {"organization", "organizations", "org", "orgs",
                     "company", "client", "clients", "customer", "customers"}
CountWord(w) == w \in {"count", "counts", "users", "user", "entries", "rows",
                       "records"}

\* The candidate of the top-K rule for the resolved entity and metric
TopKWithHighestCand(learned, k, count_intent, t_ent, t_metric, c_metric) ==
    IF count_intent
    THEN (IF t_ent # None /\ t_metric # None
          THEN JoinRuleCand(SynthesizeAggregateJoin(learned, t_ent, t_metric,
                                PkFor(learned, t_metric), k, "COUNT"),
                            ScoreTopKCount,
                            "Rule: top-K by highest counts via join")
          ELSE <<>>)
    ELSE (IF t_ent # None /\ t_metric # None /\ c_metric # None
          THEN JoinRuleCand(SynthesizeAggregateJoin(learned, t_ent, t_metric,
                                c_metric, k, "SUM"),
                            ScoreTopKMetric,
                            "Rule: top-K by highest metric via join")
          ELSE <<>>)

TopKWithHinted(learned, m, r_ent, r_met, hinted, count_intent, byHint) ==
    TopKWithHighestCand(learned, m.k, count_intent,
                        IF hinted THEN "organizations" ELSE r_ent.t,
                        IF byHint THEN "users" ELSE r_met.t,
                        IF byHint THEN None ELSE r_met.c)

\* Top K <entity> with highest <metric> (join-aware); r_ent and r_met are
\* the scorer's answers for the entity and the metric
RuleTopKWithHighest(learned, m, r_ent, r_met) ==
    IF ~(m.hit /\ learned # <<>>) THEN <<>>
    ELSE TopKWithHinted(learned, m, r_ent, r_met,
            (\E i \in 1..Len(m.ent_like) : OrgWord(m.ent_like[i]))
                /\ "organizations" \in TableNames(learned),
            \E i \in 1..Len(m.met_like) : CountWord(m.met_like[i]),
            (\E i \in 1..Len(m.met_like) : CountWord(m.met_like[i]))
                /\ "users" \in TableNames(learned))

\* The entity and metric tables the rule resolved (t_ent, t_metric), None
\* where the rule did not run or the scorer gave none
TopKResolved(learned, m, r_ent, r_met) ==
    IF ~(m.hit /\ learned # <<>>) THEN [ent |-> None, metric |-> None]
    ELSE [ent |-> IF (\E i \in 1..Len(m.ent_like) : OrgWord(m.ent_like[i]))
                      /\ "organizations" \in TableNames(learned)
                  THEN "organizations" ELSE r_ent.t,
          metric |-> IF (\E i \in 1..Len(m.met_like) : CountWord(m.met_like[i]))
                         /\ "users" \in TableNames(learned)
                     THEN "users" ELSE r_met.t]

\* The corpus the retriever ranks: static, dynamic, user and pattern items
\* with their counts (the query texts are whitespace-normalized where an
\* item is used, in RetrieverCand)
CorpusOf(items, counted) ==
    [i \in 1..Len(items) |->
        [q |-> items[i].q, sql |-> items[i].sql,
         count |-> IF counted THEN items[i].count ELSE 1]]

RetrieverCorpus(learned) ==
    CorpusOf(TEMPLATES, FALSE)
    \o CorpusOf(GenerateDynamicCorpus(learned), FALSE)
    \o CorpusOf(LoadUserCorpus, TRUE)
    \o CorpusOf(PatCorpus(patFile), FALSE)

\* retriever.py: tok(x), the [a-z0-9]+ runs of the lower-cased text
TokenParts(w) ==
    CASE w \in Space \cup {"=", "(", ")", ",", "'", "*"} -> {}
      [] w = "claim_id" -> {"claim", "id"}
      [] w = "user_id" -> {"user", "id"}
      [] w = "created_at" -> {"created", "at"}
      [] w = "2024-01-05" -> {"2024", "01", "05"}
      [] w = "{k}" -> {"k"}
      [] w = "{year}" -> {"year"}
      [] w = "{YEAR}" -> {"year"}
      [] w = "{policy_number}" -> {"policy", "number"}
      [] OTHER -> {LowerLex(w)}

Tok(text) == UNION {TokenParts(text[i]) : i \in 1..Len(text)}

\* rank(query, corpus_qs, topk): the topk best places of the corpus.  An
\* item's cosine is positive exactly when it shares a token with the query;
\* the sort is stable, so the items that share none follow in corpus order.
\* The order among the items that share one depends on the cosines, which
\* are not computed: it is their corpus order started at any of them.
Sharing(query, qs) == {i \in 1..Len(qs) : Tok(query) \cap Tok(qs[i]) # {}}

RankShifts(share) == IF share = {} THEN {0} ELSE 0..(Cardinality(share) - 1)

Rank(share, n, shift, topk) ==
    LET pos == SelectSeq([i \in 1..n |-> i], LAMBDA i : i \in share)
        zero == SelectSeq([i \in 1..n |-> i], LAMBDA i : i \notin share)
        order == SubSeq(pos, shift + 1, Len(pos)) \o SubSeq(pos, 1, shift)
                 \o zero
    IN SubSeq(order, 1, IF n < topk THEN n ELSE topk)

\* Faulty variant: 0.01386 per count, neither logarithm nor cap
BoostLinear(count) == IF count <= 0 THEN 0 ELSE 1386 * count

\* min(0.05, 0.02 * log1p(count))
Boost(count) ==
    CASE count <= 0 -> 0
      [] count = 1 -> 1386
      [] count = 2 -> 2197
      [] count = 3 -> 2773
      [] count = 4 -> 3219
      [] count = 5 -> 3584
      [] count = 6 -> 3892
      [] count = 7 -> 4159
      [] count = 8 -> 4394
      [] count = 9 -> 4605
      [] count = 10 -> 4796
      [] count = 11 -> 4970
      [] OTHER -> 5000

\* score = base + boost + compat + penalty for an item whose query text
\* names the tables `tables` and selects the distinct columns `dcols`
RetrieverScore(tables, dcols, count, rank_i, pred) ==
    78000 - 4000 * rank_i + Boost(count)
    + (IF pred.t # None /\ pred.t \in tables THEN 10000 ELSE 0)
    + (IF pred.c # None /\ \E d \in dcols : InName(pred.c, d)
       THEN 5000 ELSE 0)
    - (IF pred.t # None /\ tables # {} /\ pred.t \notin tables
       THEN 45000 ELSE 0)

\* The candidate of the item at place rank_i (from 0) of the ranking
RetrieverCand(item, rank_i, pred) ==
    Candidate(StripSql(NormSql(item.sql)),
              RetrieverScore(SqlTables(NormSql(item.sql)),
                             SqlDistinctCols(NormSql(item.sql)),
                             item.count, rank_i, pred),
              "Retriever", item.q, item.count)

Retriever(corpus, idxs, pred) ==
    [k \in 1..Len(idxs) |-> RetrieverCand(corpus[idxs[k]], k - 1, pred)]

\* if not cands: the fallback sample
Fallback ==
    RuleCand(<<"SELECT", WS, "*", WS, "FROM", WS, "policies">>, ScoreFallback,
             "Fallback sample")

\* Python's string order on the rationale texts
KindOrder == <<"Fallback sample", "Join discovery", "Retriever",
               "Rule: count distinct column in table (ID-avoidance fallback)",
               "Rule: count rows in table",
               "Rule: show/list with inferred filters",
               "Rule: top-K by aggregate",
               "Rule: top-K by highest counts via join",
               "Rule: top-K by highest metric via join",
               "Rule: unique/distinct (resolved table/column; non-ID/categorical preference)",
               "Rule: year filter">>
KindRank(k) == CHOOSE i \in 1..Len(KindOrder) : KindOrder[i] = k

RationaleLess(a, b) ==
    \/ KindRank(a.kind) < KindRank(b.kind)
    \/ /\ a.kind = b.kind
       /\ \/ StrLess(a.q, b.q)
          \/ a.q = b.q /\ a.count < b.count

\* Faulty variant of the sort key: the score alone
CandLessByScore(a, b) == a.score > b.score

\* key=lambda x: (-x.score, x.rationale)
CandLess(a, b) ==
    \/ a.score > b.score
    \/ a.score = b.score /\ RationaleLess(a.rationale, b.rationale)

InsertCand(srt, x) ==
    LET k == Cardinality({i \in 1..Len(srt) : ~CandLess(x, srt[i])})
    IN SubSeq(srt, 1, k) \o <<x>> \o SubSeq(srt, k + 1, Len(srt))

RECURSIVE SortCands(_, _)
SortCands(cs, srt) ==
    IF cs = <<>> THEN srt ELSE SortCands(Tail(cs), InsertCand(srt, Head(cs)))

\* The loop of _dedupe_keep_best: best[key] per query text, in first-seen
\* order
RECURSIVE KeepBest(_, _)
KeepBest(cs, best) ==
    IF cs = <<>> THEN best
    ELSE LET c == Head(cs)
             same == {i \in 1..Len(best) : Strip(best[i].sql) = Strip(c.sql)}
         IN KeepBest(Tail(cs),
                IF same = {} THEN Append(best, c)
                ELSE IF c.score > best[SetMin(same)].score
                     THEN [best EXCEPT ![SetMin(same)] = c]
                ELSE best)

\* Faulty variant of the loop: a candidate enters only by beating a kept one
RECURSIVE KeepBetterOnly(_, _)
KeepBetterOnly(cs, best) ==
    IF cs = <<>> THEN best
    ELSE LET c == Head(cs)
             same == {i \in 1..Len(best) : Strip(best[i].sql) = Strip(c.sql)}
         IN KeepBetterOnly(Tail(cs),
                IF same # {} /\ c.score > best[SetMin(same)].score
                THEN [best EXCEPT ![SetMin(same)] = c]
                ELSE best)

DedupeDropsNew(cs) == SortCands(KeepBetterOnly(cs, <<>>), <<>>)

\* _dedupe_keep_best(cands)
DedupeKeepBest(cs) == SortCands(KeepBest(cs, <<>>), <<>>)

\* The scorer's answers when the rule asks, (None, None) when it does not
NoAnswer == {[t |-> None, c |-> None]}
Asked(cond, learned, toks) ==
    IF cond /\ learned # <<>> THEN ScoreTableColumn(learned, toks) ELSE NoAnswer

\* A caller (the app, the CLI) asks a question on a database
Ask(Cs) ==
    /\ AllIdle
    /\ IF genArgs = <<>> THEN TRUE ELSE genArgs.returned
    /\ \E c \in Cs :
          genArgs' = [question |-> c[1], learned |-> c[2], returned |-> FALSE]
    /\ cands' = <<>>
    /\ UNCHANGED <<log, offsetFile, corpusFile, synFile, patFile, pc, loc, ret,
                   doneMax, saved,
                   pathVars, runVars, callVars>>

\* generate_candidates(question, conn), learned = learn_schema(conn): each
\* rule contributes what it appends for some answer of the scorer
GenerateCandidates ==
    /\ IF genArgs = <<>> THEN FALSE ELSE ~genArgs.returned
    /\ LET learned == genArgs.learned
           q == Strip(genArgs.question)
           W == Words(q)
           toks == Keywords(q)
           mU == MatchUnique(W)
           mD == MatchCountDistinct(W)
           mR == MatchCountRows(W)
           mB == MatchTopKInBy(W)
           mY == MatchYearIn(W)
           mH == MatchTopKWithHighest(W)
       IN \E corpus \in {RetrieverCorpus(learned)} :
          \E share \in {Sharing(Lower(q), [i \in 1..Len(corpus) |-> corpus[i].q])} :
          \E cU \in {RuleUnique(learned, mU, r) :
                        r \in Asked(mU.hit, learned,
                                    IF mU.hit
                                    THEN Keywords(mU.col_like) \o Keywords(mU.tab_like)
                                    ELSE <<>>)},
             cD \in {RuleCountDistinct(learned, mD, r) :
                        r \in Asked(mD.hit, learned,
                                    IF mD.hit
                                    THEN Keywords(mD.col_like) \o Keywords(mD.tab_like)
                                    ELSE <<>>)},
             cR \in {RuleCountRows(learned, mR, r) :
                        r \in Asked(mR.hit, learned,
                                    IF mR.hit THEN Keywords(mR.tab_like) ELSE <<>>)},
             cB \in {RuleTopKInBy(learned, mB, rA, rB) :
                        rA \in Asked(mB.hit, learned,
                                     IF mB.hit
                                     THEN Keywords(mB.colA_like) \o Keywords(mB.tab_like)
                                     ELSE <<>>),
                        rB \in Asked(mB.hit, learned,
                                     IF mB.hit
                                     THEN Keywords(mB.colB_like) \o Keywords(mB.tab_like)
                                     ELSE <<>>)},
             cY \in {RuleYear(learned, mY, r) :
                        r \in Asked(mY.hit, learned,
                                    IF mY.hit THEN Keywords(mY.tab_like) ELSE <<>>)},
             cS \in {RuleShowList(learned, W, toks, r) :
                        r \in Asked(MatchShowList(W), learned, toks)},
             hH \in {[cand |-> RuleTopKWithHighest(learned, mH, rE, rM),
                       resolved |-> TopKResolved(learned, mH, rE, rM)] :
                        rE \in Asked(mH.hit, learned,
                                     IF mH.hit THEN Keywords(mH.ent_like) ELSE <<>>),
                        rM \in Asked(mH.hit, learned,
                                     IF mH.hit THEN Keywords(mH.met_like) ELSE <<>>)},
             cT \in {IF corpus # <<>>
                     THEN Retriever(corpus, Rank(share, Len(corpus), shift, TopK), pred)
                     ELSE <<>> :
                        pred \in Asked(TRUE, learned, toks),
                        shift \in RankShifts(share)} :
           LET found == cU \o cD \o cR \o cB \o cY \o cS
                        \o JoinDiscovery(learned, toks) \o hH.cand \o cT
           IN /\ cands' = DedupeKeepBest(IF found = <<>> THEN <<Fallback>>
                                         ELSE found)
              /\ genArgs' = [question |-> genArgs.question,
                             learned |-> genArgs.learned,
                             returned |-> TRUE,
                             resolved |-> hH.resolved,
                             appended |-> IF found = <<>> THEN <<Fallback>>
                                          ELSE found]
    /\ UNCHANGED <<log, offsetFile, corpusFile, synFile, patFile, pc, loc, ret,
                   doneMax, saved,
                   pathVars, runVars, callVars>>

(***************************************************************************)
(* Calls of generate_candidates on the stores that ingestion leaves.       *)
(***************************************************************************)
\* The questions asked, each with the databases it is asked on
AnyDb == {<<>>, Q_q1, Q_Top}
OnClaims ==
    {Join(<<"unique", "status", "in", "claims">>),
     Join(<<"How", "many", "status", "in", "claims">>),
     Join(<<"how", "many", "rows", "in", "claims">>),
     Join(<<"top", "5", "status", "in", "claims", "by", "claim_id">>),
     Join(<<"claims", "in", "2024">>),
     Join(<<"show", "open", "claims">>),
     Join(<<"show", "unique", "status", "in", "claims">>),
     Join(<<"distinct", "state", "in", "claims">>)}
OnShop ==
    {Join(<<"list", "orders", "users">>),
     Join(<<"top", "3", "orders", "with", "highest", "user", "counts">>),
     Join(<<"top", "3", "users", "with", "highest", "total">>),
     Join(<<"unique", "names", "in", "users">>),
     Join(<<"top", "3", "users", "with", "highest", "order", "counts">>)}

OnLoose ==
    {Join(<<"top", "3", "claims", "with", "highest", "user", "counts">>)}

OnKeyed == {Join(<<"list", "orders", "users">>)}

Calls == (AnyDb \X Schemas)
         \cup (OnClaims \X {NoTables, ClaimsDb})
         \cup (OnShop \X {ShopDb})
         \cup (OnLoose \X {LooseDb})
         \cup (OnKeyed \X {KeyedDb})

\* The feedback lines the stores were learned from
GenLine1 == Rec(Q_Top, S_Status, FALSE, S_TwoLimits)
GenLine2 == Rec(Join(<<"list", "orders", "users">>),
                JoinSql(ShopDb, "orders", "user_id", "users"), TRUE, <<>>)
GenLines == {GenLine1, GenLine2}

\* The logs of at most MaxLog of these lines, the lines of the first kind
\* before those of the second
GenLogs ==
    UNION {{[i \in 1..n |-> IF i <= k THEN GenLine1 ELSE GenLine2] :
               k \in 0..n} : n \in 0..MaxLog}

\* The state after ingest_feedback_to_corpus has consumed a log
InitGen ==
    /\ log \in GenLogs
    /\ LET L == ReadAll(InitLoc, log)
       IN /\ corpusFile = NewItems(L.index)
          /\ synFile = L.syn
          /\ patFile = DedupePatterns(L.patterns, <<>>)
    /\ offsetFile = IF log = <<>> THEN -1 ELSE LogBytes(log)
    /\ pc = [p \in Procs |-> "idle"]
    /\ loc = [p \in Procs |-> InitLoc]
    /\ ret = [p \in Procs |-> <<>>]
    /\ doneMax = LogBytes(log)
    /\ saved = -1
    /\ cands = <<>>
    /\ genArgs = <<>>
    /\ pathArgs = <<>> /\ path = <<>> /\ edges = <<>>
    /\ runArgs = <<>> /\ runOut = <<>>
    /\ dynSynCache = <<>> /\ synOut = <<>> /\ loaded = <<>>
    /\ scoreArgs = <<>> /\ scoreOut = <<>>

NextGen == Ask(Calls) \/ GenerateCandidates

SpecGen == InitGen /\ [][NextGen]_vars

\* The number of LIMIT keywords of a query text
LimitCount(sql) == Cardinality({i \in 1..Len(sql) : sql[i] \in {"LIMIT", "limit"}})

\* A call has returned
Returned == IF genArgs = <<>> THEN FALSE ELSE genArgs.returned

(***************************************************************************)
(* C1: generate_candidates never returns an empty list: whatever the       *)
(* question (the empty one included) and the schema (no connection or no   *)
(* tables included), a call returns at least one candidate.                *)
(***************************************************************************)
C1_NeverEmpty == Returned => Len(cands) >= 1

\* The empty question, asked without tables and with nothing learned
C1_Witness ==
    /\ Returned
    /\ genArgs.question = <<>> /\ genArgs.learned = NoTables
    /\ corpusFile = <<>> /\ patFile = <<>>
    /\ Len(cands) >= 1

(***************************************************************************)
(* C2: every candidate that generate_candidates returns, whatever its      *)
(* source, has a query text with at most one LIMIT clause.  As stated this *)
(* fails: an accepted query text with two LIMIT clauses is returned as it  *)
(* was taught.                                                             *)
(***************************************************************************)
C2_AtMostOneLimit ==
    Returned => \A i \in 1..Len(cands) : LimitCount(cands[i].sql) <= 1

\* The query texts that a candidate can take from an accepted text of the
\* log: the text itself and its induced pattern, materialized
TaughtForms(t) ==
    {StripSql(NormSql(t)), StripSql(NormSql(MaterializeK(PatSql(t))))}

(***************************************************************************)
(* C2, amended: every candidate has a query text with at most one LIMIT    *)
(* clause, except a retriever candidate whose text is an accepted query    *)
(* text of the feedback log, or the materialized pattern induced from one, *)
(* which has as many LIMIT clauses as that accepted text:                  *)
(* generate_candidates adds no LIMIT clause to a text.                     *)
(***************************************************************************)
C2_LimitsOnlyFromTaughtSql ==
    Returned =>
        \A i \in 1..Len(cands) :
            \/ LimitCount(cands[i].sql) <= 1
            \/ /\ cands[i].rationale.kind = "Retriever"
               /\ \E k \in {n \in 1..Len(log) : Accepted(log[n])} :
                     /\ cands[i].sql \in TaughtForms(AcceptedSql(log[k]))
                     /\ LimitCount(cands[i].sql) = LimitCount(AcceptedSql(log[k]))

\* A result holding a synthesized text with one LIMIT clause and a taught
\* text with two
C2_Witness ==
    /\ Returned
    /\ \E i \in 1..Len(cands) :
          cands[i].rationale.kind # "Retriever" /\ LimitCount(cands[i].sql) = 1
    /\ \E i \in 1..Len(cands) :
          /\ cands[i].rationale.kind = "Retriever"
          /\ cands[i].sql = S_TwoLimits

(***************************************************************************)
(* C3: replaying an already ingested byte range (the checkpoint restored   *)
(* to a prior value, ingest() run again) leaves the corpus with the same   *)
(* (question, sql, count) items as ingesting the range once.               *)
(***************************************************************************)
C3_ReplayKeepsItems ==
    Consumed => Range(corpusFile) = ExpectedCorpus(log, 1..Len(log))

(***************************************************************************)
(* C4: after a crash at any step and a re-run to completion, the corpus,   *)
(* synonym and pattern stores equal those of one crash-free ingest() of    *)
(* the same log.                                                           *)
(***************************************************************************)
C4_CrashRerunEqualsCrashFree ==
    Consumed =>
        LET once == ReadAll(InitLoc, log)
        IN /\ Range(corpusFile) = Range(NewItems(once.index))
           /\ synFile = once.syn
           /\ Range(patFile) = Range(DedupePatterns(once.patterns, <<>>))

(***************************************************************************)
(* C5: at every point of every execution the persisted checkpoint covers   *)
(* only log records whose pairs the persisted corpus already holds with    *)
(* at least their counts.                                                  *)
(***************************************************************************)
C5_CheckpointCoveredByCorpus ==
    \A e \in ExpectedCorpus(log, ConsumedLines(log, ReadOffset)) :
        IndexGet(corpusFile, e.q, e.sql) >= e.count

\* The ordering half of C5: the checkpoint file changes only in a call that
\* has already written its corpus, synonym and pattern stores
C5_AdvanceAfterWrites ==
    [][offsetFile' # offsetFile =>
          \E p \in Procs : /\ pc[p] \in {"open_offset", "write_offset"}
                           /\ loc[p].wrote]_vars

(***************************************************************************)
(* C6: two concurrent ingest() calls end with every accepted record below  *)
(* the checkpoint counted exactly once in the corpus.                      *)
(***************************************************************************)
C6_ConcurrentCountsOnce ==
    (AllIdle /\ \A p \in Procs : ret[p] # <<>>) =>
        Range(corpusFile)
            = ExpectedCorpus(log, ConsumedLines(log, ReadOffset))

(***************************************************************************)
(* C7: the persisted checkpoint is never below a value written by an       *)
(* ingest() that has returned.                                             *)
(***************************************************************************)
C7_CheckpointMonotone == offsetFile >= 0 => offsetFile >= doneMax

(***************************************************************************)
(* C8: after crash-free sequential calls ending with ingest(),             *)
(* load_user_corpus() holds exactly one entry per accepted pair of the     *)
(* log, its count the number of accepted records of the pair; the log      *)
(* with the single record {q1, correct, SELECT 1} makes the first ingest   *)
(* return (1, 1) and the corpus hold {q1, SELECT 1, 1}.                    *)
(***************************************************************************)
C8_Scenario == <<Rec(Q_q1, S_Select1, TRUE, <<>>)>>

C8_CorpusMatchesLog ==
    /\ Consumed =>
          /\ Range(LoadUserCorpus) = ExpectedCorpus(log, 1..Len(log))
          /\ Len(LoadUserCorpus) = Cardinality(ExpectedCorpus(log, 1..Len(log)))
    /\ \A p \in Procs :
          (pc[p] = "return" /\ log = C8_Scenario /\ loc[p].offset = 0) =>
              /\ <<loc[p].new_count, loc[p].total>> = <<1, 1>>
              /\ LoadUserCorpus = <<[q |-> <<"q1">>, sql |-> S_Select1, count |-> 1]>>

\* Two different raw records of the same pair have been merged into count 2
C8_Witness ==
    /\ Consumed
    /\ Len(log) = 2
    /\ log[1].question # log[2].question
    /\ log[1].generated_sql # log[2].generated_sql
    /\ LoadUserCorpus = <<[q |-> <<"q1">>, sql |-> S_Select1, count |-> 2]>>

(***************************************************************************)
(* C9: once an ingest() has consumed the whole log, a further ingest()     *)
(* with nothing appended returns (0, total), with the total of the call    *)
(* before, and leaves the corpus file and the checkpoint as they were.     *)
(***************************************************************************)
C9_NothingNewNothingChanges ==
    \A p \in Procs :
        (pc[p] = "return" /\ doneMax = LogBytes(log)) =>
            /\ loc[p].new_count = 0
            /\ loc[p].total = Len(loc[p].corpus_items)
            /\ corpusFile = loc[p].corpus_items
            /\ Max(offsetFile, 0) = doneMax
            /\ ret[p] # <<>> => ret[p][2] = loc[p].total

\* A second call is about to return over a log consumed by the first, the
\* corpus holding a reinforced pair
C9_Witness ==
    /\ pc[1] = "return"
    /\ doneMax = LogBytes(log)
    /\ loc[1].wrote
    /\ ret[1] # <<>> /\ ret[1][1] > 0
    /\ Len(corpusFile) = 1
    /\ corpusFile[1].count = 2

(***************************************************************************)
(* C10: per record the accepted query is the corrected one when present,   *)
(* else the generated one when marked correct; a record that is neither    *)
(* marked correct nor corrected never creates or increments a corpus       *)
(* entry, a synonym count or a pattern.                                    *)
(***************************************************************************)
\* The rule as the claim words it
Trusted(line) ==
    line.parsable /\ (Strip(line.corrected_sql) # <<>> \/ line.correct)
TrustedSql(line) ==
    IF Strip(line.corrected_sql) # <<>> THEN line.corrected_sql
    ELSE line.generated_sql

RECURSIVE SumCounts(_)
SumCounts(items) ==
    IF items = <<>> THEN 0 ELSE Head(items).count + SumCounts(Tail(items))

Occurrences(tok, s) == Cardinality({i \in 1..Len(s) : s[i] = tok})

RECURSIVE SumOver(_, _, _)
SumOver(I, lg, tok) ==
    IF I = {} THEN 0
    ELSE LET i == CHOOSE j \in I : TRUE
         IN Occurrences(tok, Lower(lg[i].question)) + SumOver(I \ {i}, lg, tok)

\* Entries of an index, a synonym map and a pattern list all stem from
\* trusted lines among the first n lines of the log, and no more often
\* than those lines occur
LearnedFrom(index, syn, pats, n) ==
    LET T == {i \in 1..n : Trusted(log[i])}
    IN /\ \A k \in 1..Len(index) : \E i \in T :
              /\ index[k].q = Lower(Strip(log[i].question))
              /\ index[k].sql = NormSql(Strip(TrustedSql(log[i])))
       /\ SumCounts(index) <= Cardinality(T)
       /\ \A t \in DOMAIN syn : syn[t].count <= SumOver(T, log, t)
       /\ \A k \in 1..Len(pats) : \E i \in T :
              /\ pats[k].q_pat = PatQ(Lower(Strip(log[i].question)))
              /\ pats[k].sql_pat = PatSql(NormSql(Strip(TrustedSql(log[i]))))

C10_OnlyTrustedRecordsLearned ==
    /\ Consumed =>
          \A i \in 1..Len(log) :
              (/\ Trusted(log[i])
               /\ Strip(log[i].question) # <<>>
               /\ Strip(TrustedSql(log[i])) # <<>>) =>
                  IndexGet(corpusFile, Lower(Strip(log[i].question)),
                           NormSql(Strip(TrustedSql(log[i])))) > 0
    /\ LearnedFrom(corpusFile, synFile, patFile, Len(log))
    /\ \A p \in Procs : pc[p] \in {"loop", "write_corpus"} =>
          LearnedFrom(loc[p].index, loc[p].syn, loc[p].patterns,
                      Cardinality(ConsumedLines(log, loc[p].size_after)))

\* The log holds an untrusted record and a record that is both marked
\* correct and corrected, all consumed; the three stores hold what the
\* second one taught
C10_Witness ==
    /\ Consumed
    /\ \E i \in 1..Len(log) : log[i].parsable /\ ~Trusted(log[i])
                                /\ Strip(log[i].question) # <<>>
    /\ \E i \in 1..Len(log) : Accepted(log[i]) /\ log[i].corrected_sql # <<>>
                                /\ log[i].correct
    /\ Len(corpusFile) = 1 /\ DOMAIN synFile # {} /\ Len(patFile) = 1

(***************************************************************************)
(* C11: across any sequence of ingest() calls the corpus file holds at     *)
(* most one item per (question, sql) pair and every count is at least 1;   *)
(* no step removes a stored pair or lowers its count.                      *)
(***************************************************************************)
CorpusUnique ==
    \A i, j \in 1..Len(corpusFile) :
        (corpusFile[i].q = corpusFile[j].q /\ corpusFile[i].sql = corpusFile[j].sql)
            => i = j

CorpusCountsPositive == \A i \in 1..Len(corpusFile) : corpusFile[i].count >= 1

CorpusGrows ==
    \A i \in 1..Len(corpusFile) : \E j \in 1..Len(corpusFile') :
        /\ corpusFile'[j].q = corpusFile[i].q
        /\ corpusFile'[j].sql = corpusFile[i].sql
        /\ corpusFile'[j].count >= corpusFile[i].count

C11_CorpusOnlyGrows ==
    [](CorpusUnique /\ CorpusCountsPositive) /\ [][CorpusGrows]_vars

\* A second ingest() has reaffirmed a stored pair: nothing new, one item,
\* its count raised to 2
C11_Witness ==
    /\ AllIdle
    /\ Len(log) = 2
    /\ ret[1] = <<0, 1>>
    /\ Len(corpusFile) = 1
    /\ corpusFile[1].count = 2

(***************************************************************************)
(* C12: when a question of the form "how many rows in T" has made the      *)
(* count-rows rule produce its candidate for a table T of the schema, the  *)
(* first candidate of the returned list is the query that counts the rows  *)
(* of T under the name row_count (CountRowsSql).                           *)
(***************************************************************************)
CountRowsSql(t) ==
    <<"SELECT", WS, "COUNT", "(", "*", ")", WS, "AS", WS, "row_count", WS,
      "FROM", WS, t>>

CountRowsAsked ==
    /\ Returned
    /\ MatchCountRows(Words(Strip(genArgs.question))).hit
    /\ \E i \in 1..Len(cands) : \E t \in TableNames(genArgs.learned) :
          cands[i].sql = CountRowsSql(t)

C12_CountRowsFirst ==
    CountRowsAsked =>
        \E t \in TableNames(genArgs.learned) : cands[1].sql = CountRowsSql(t)

(***************************************************************************)
(* C13: whenever the unique/distinct rule produces a candidate, it is the  *)
(* first candidate of the returned list and every other candidate scores   *)
(* strictly less; on the stores of any call that the rule matches, no      *)
(* retriever candidate, at any place of the ranking, for any item of the   *)
(* corpus with any count and any answer of the scorer, reaches its score,  *)
(* nor does the fixed score of any other rule; for                         *)
(* "unique status in claims" on the claims table                           *)
(* the first query is SELECT DISTINCT status FROM claims ORDER BY status.   *)
(***************************************************************************)
MaxBoostCount == 13   \* counts tried on the items of the corpus

UniqueKind ==
    "Rule: unique/distinct (resolved table/column; non-ID/categorical preference)"

UniqueProduced ==
    /\ Returned
    /\ \E i \in 1..Len(cands) : cands[i].rationale.kind = UniqueKind

\* A call whose question the rule matches is about to run
UniqueAsked ==
    /\ IF genArgs = <<>> THEN FALSE ELSE ~genArgs.returned
    /\ genArgs.learned # <<>>
    /\ MatchUnique(Words(Strip(genArgs.question))).hit

Q_UniqueStatus == Join(<<"unique", "status", "in", "claims">>)

S_DistinctStatus ==
    <<"SELECT", WS, "DISTINCT", WS, "status", WS, "FROM", WS, "claims", WS,
      "ORDER", WS, "BY", WS, "status">>

RetrieverBelow(learned, toks, limit) ==
    \A item \in Range(RetrieverCorpus(learned)) :
    \E tables \in {SqlTables(NormSql(item.sql))} :
    \E dcols \in {SqlDistinctCols(NormSql(item.sql))} :
    \A n \in 1..MaxBoostCount :
    \A rank_i \in 0..(TopK - 1) :
    \A pred \in ScoreTableColumn(learned, toks) \cup NoAnswer :
        RetrieverScore(tables, dcols, n, rank_i, pred) < limit

C13_UniqueRuleFirst ==
    /\ \A other \in {ScoreCountDistinct, ScoreCountRows, ScoreTopKInBy,
                     ScoreYear, ScoreShowList, ScoreJoin, ScoreTopKCount,
                     ScoreTopKMetric, ScoreFallback} : other < ScoreUnique
    /\ UniqueProduced =>
          /\ cands[1].rationale.kind = UniqueKind
          /\ cands[1].score = ScoreUnique
          /\ \A i \in 2..Len(cands) : cands[i].score < cands[1].score
    /\ UniqueAsked =>
          RetrieverBelow(genArgs.learned, Keywords(Strip(genArgs.question)),
                         ScoreUnique)
    /\ (Returned /\ genArgs.question = Q_UniqueStatus
                 /\ genArgs.learned = ClaimsDb)
          => cands[1].sql = S_DistinctStatus

\* The rule has answered ahead of the show/list rule and of a retriever
\* candidate that agrees with the scorer on the table, a taught entry in
\* the corpus
C13_Witness ==
    /\ UniqueProduced
    /\ cands[1].sql = S_DistinctStatus
    /\ corpusFile # <<>>
    /\ \E i \in 2..Len(cands) :
          cands[i].rationale.kind = "Retriever" /\ cands[i].score > 78000
    /\ \E i \in 2..Len(cands) :
          cands[i].rationale.kind = "Rule: show/list with inferred filters"

(***************************************************************************)
(* C14: when the unique/distinct rule answers "unique/distinct X in T" and *)
(* the table T it resolved has an identifier-like column and a categorical *)
(* column that X names or is a synonym of, the column of the rule's query  *)
(* is not identifier-like.                                                 *)
(***************************************************************************)
\* Column c of table tb holds text values and is named by the phrase x
CategoricalNamed(tb, c, x) ==
    /\ ~IdLike(c)
    /\ c \notin tb.is_numeric \cup tb.is_date
    /\ \/ FlattenWords(x) = UnderWords(c)
       \/ Len(x) = 1 /\ x[1] \in SynonymsFor(c)

HasIdAndCategorical(learned, t, x) ==
    /\ t \in TableNames(learned)
    /\ \E c \in SeqToSet(Tab(learned, t).columns) : IdLike(c)
    /\ \E c \in SeqToSet(Tab(learned, t).columns) :
          CategoricalNamed(Tab(learned, t), c, x)

\* The column and the table of SELECT DISTINCT c FROM t ORDER BY c
DistinctColumn(sql) == sql[5]
DistinctTable(sql) == sql[9]

C14_NeverIdColumn ==
    Returned =>
        \A i \in 1..Len(cands) :
            (/\ cands[i].rationale.kind = UniqueKind
             /\ HasIdAndCategorical(genArgs.learned, DistinctTable(cands[i].sql),
                    MatchUnique(Words(Strip(genArgs.question))).col_like))
            => ~IdLike(DistinctColumn(cands[i].sql))

\* "unique names in users": no column is called names, the rule falls back
\* to the non-identifier columns of users(id, name) and selects name
C14_Witness ==
    /\ Returned
    /\ genArgs.question = Join(<<"unique", "names", "in", "users">>)
    /\ \E i \in 1..Len(cands) :
          /\ cands[i].rationale.kind = UniqueKind
          /\ DistinctTable(cands[i].sql) = "users"
          /\ DistinctColumn(cands[i].sql) = "name"
          /\ HasIdAndCategorical(genArgs.learned, "users", <<"names">>)

(***************************************************************************)
(* C15: for an entity table E and a metric table M with an inferred        *)
(* foreign-key edge between them, in either direction, the query that the  *)
(* top-K rule synthesizes for "top K E with highest M counts" joins E and  *)
(* M on the column pair of the edge, groups by the primary key of E,       *)
(* orders by the count descending and ends with LIMIT K, its only LIMIT.   *)
(***************************************************************************)
TopKCountsKind == "Rule: top-K by highest counts via join"

\* The word w is the name of table t or the name less its final "s"
NamesTable(w, t) == w \in {t, RStripS(t)}

\* The inferred edges that link tables a and b
EdgesBetween(learned, a, b) ==
    {e \in SeqToSet(Adjacency(learned, a)) : e.R = b}
    \cup {e \in SeqToSet(Adjacency(learned, b)) : e.R = a}

ContainsSeq(s, sub) ==
    \E i \in 0..(Len(s) - Len(sub)) : SubSeq(s, i + 1, i + Len(sub)) = sub

JoinsOn(sql, e) ==
    \/ ContainsSeq(sql, <<"JOIN", WS, e.R, WS, "ON", WS, Col(e.L, e.Lcol), WS,
                          "=", WS, Col(e.R, e.Rpk)>>)
    \/ ContainsSeq(sql, <<"JOIN", WS, e.L, WS, "ON", WS, Col(e.R, e.Rpk), WS,
                          "=", WS, Col(e.L, e.Lcol)>>)

CountJoinShape(learned, sql, E, M, k) ==
    /\ \E e \in EdgesBetween(learned, E, M) : JoinsOn(sql, e)
    /\ ContainsSeq(sql, <<"GROUP", WS, "BY", WS, Col(E, PkFor(learned, E))>>)
    /\ \E alias \in {"user_count", "row_count"} :
          /\ ContainsSeq(sql, <<"COUNT", "(", "*", ")", WS, "AS", WS, alias>>)
          /\ ContainsSeq(sql, <<"ORDER", WS, "BY", WS, alias, WS, "DESC">>)
    /\ Len(sql) >= 3
    /\ SubSeq(sql, Len(sql) - 2, Len(sql)) = <<"LIMIT", WS, k>>
    /\ LimitCount(sql) = 1

\* The question reads "top K <E> with highest <M> count(s)" for two linked
\* tables E and M of the schema
AsksCountsOf(learned, m, E, M) ==
    /\ m.hit
    /\ Len(m.ent_like) = 1 /\ NamesTable(m.ent_like[1], E)
    /\ Len(m.met_like) = 2 /\ NamesTable(m.met_like[1], M)
    /\ m.met_like[2] \in {"count", "counts"}
    /\ E # M
    /\ EdgesBetween(learned, E, M) # {}

C15_CountJoinOnEdge ==
    Returned =>
        \A E, M \in TableNames(genArgs.learned) :
            AsksCountsOf(genArgs.learned,
                         MatchTopKWithHighest(Words(Strip(genArgs.question))),
                         E, M)
            => \A i \in 1..Len(cands) :
                  (/\ cands[i].rationale.kind = TopKCountsKind
                   /\ cands[i].sql[3] = Col(E, PkFor(genArgs.learned, E)))
                  => CountJoinShape(genArgs.learned, cands[i].sql, E, M,
                        MatchTopKWithHighest(Words(Strip(genArgs.question))).k)

\* The same statement for the questions whose metric table is users
C15_UserCountJoinOnEdge ==
    Returned =>
        \A E \in TableNames(genArgs.learned) :
            AsksCountsOf(genArgs.learned,
                         MatchTopKWithHighest(Words(Strip(genArgs.question))),
                         E, "users")
            => \A i \in 1..Len(cands) :
                  (/\ cands[i].rationale.kind = TopKCountsKind
                   /\ cands[i].sql[3] = Col(E, PkFor(genArgs.learned, E)))
                  => CountJoinShape(genArgs.learned, cands[i].sql, E, "users",
                        MatchTopKWithHighest(Words(Strip(genArgs.question))).k)

(***************************************************************************)
(* Calls of find_join_path on schemas of four tables, each with its own    *)
(* key and up to MaxFks columns that name the key of another table.        *)
(***************************************************************************)
MaxFks == 1   \* foreign-key columns a table may hold

PathNames == <<"claims", "items", "orders", "users">>

KeyOf(t) == RStripS(t) \o "_id"

\* The ways to pick at most n of the columns in cols, in their order
RECURSIVE Picks(_, _)
Picks(cols, n) ==
    IF cols = <<>> \/ n = 0 THEN {<<>>}
    ELSE Picks(Tail(cols), n)
         \cup {<<Head(cols)>> \o p : p \in Picks(Tail(cols), n - 1)}

\* The tables named t: its key, then the keys of other tables
PathTables(t) ==
    {[name |-> t, columns |-> <<KeyOf(t)>> \o fks] :
        fks \in Picks(SelectSeq([i \in 1..Len(PathNames) |-> KeyOf(PathNames[i])],
                                LAMBDA c : c # KeyOf(t)),
                      MaxFks)}

PathSchemas ==
    {<<a, b, c, d>> : a \in PathTables(PathNames[1]), b \in PathTables(PathNames[2]),
                      c \in PathTables(PathNames[3]), d \in PathTables(PathNames[4])}

\* The names asked for: the tables of the schema and a name it lacks
PathEnds == SeqToSet(PathNames) \cup {"policies"}

\* The names a path is asked from: the first and the last table of the
\* schema, and the name it lacks
PathStarts == {PathNames[1], PathNames[Len(PathNames)], "policies"}

\* Tables whose keys take the forms that _pk_for tells apart: a column
\* id, the name of the table less its final s with _id, another column in
\* _id, no column in _id
ClaimsTables ==
    {[name |-> "claims", columns |-> cs] :
        cs \in {<<"id", "policy_id">>, <<"claim_id", "policy_id">>,
                <<"claim_id", "user_id">>, <<"status", "claim_id">>}}
PoliciesTables ==
    {[name |-> "policies", columns |-> cs] :
        cs \in {<<"id", "status">>, <<"policy_id", "status">>,
                <<"user_id", "policy_id">>, <<"status", "policy_id">>,
                <<"status">>, <<"claim_id", "id">>}}
HoldersTable == [name |-> "policy_holders", columns |-> <<"id", "status">>]
KeySchemas == {<<a, b>> : a \in ClaimsTables, b \in PoliciesTables}
                  \cup {<<a, b, HoldersTable>> :
                           a \in ClaimsTables, b \in PoliciesTables}

\* The values of max_hops: the default, and a bound of one hop
PathHops == {1, 2}

InitPath ==
    /\ log = <<>>
    /\ offsetFile = -1
    /\ corpusFile = <<>>
    /\ synFile = EmptySyn
    /\ patFile = <<>>
    /\ pc = [p \in Procs |-> "idle"]
    /\ loc = [p \in Procs |-> InitLoc]
    /\ ret = [p \in Procs |-> <<>>]
    /\ doneMax = 0
    /\ saved = -1
    /\ cands = <<>>
    /\ genArgs = <<>>
    /\ pathArgs \in {[learned |-> l, src |-> s, dst |-> d, max_hops |-> h] :
                        l \in PathSchemas \cup KeySchemas, s \in PathStarts,
                        d \in PathEnds, h \in PathHops}
    /\ path = <<>>
    /\ edges = <<>>
    /\ runArgs = <<>> /\ runOut = <<>>
    /\ dynSynCache = <<>> /\ synOut = <<>> /\ loaded = <<>>
    /\ scoreArgs = <<>> /\ scoreOut = <<>>

\* find_join_path(learned, src, dst, max_hops): max_hops is not read
FindPath ==
    /\ path = <<>>
    /\ path' = FindJoinPath(pathArgs.learned, pathArgs.src, pathArgs.dst)
    /\ UNCHANGED <<storeVars, pathArgs, edges, runVars, callVars>>

\* infer_fk_edges(learned): the edges of the tables in schema order, those
\* of a table in column order
RECURSIVE EdgesFrom(_, _)
EdgesFrom(learned, k) ==
    IF k > Len(learned) THEN <<>>
    ELSE Adjacency(learned, learned[k].name) \o EdgesFrom(learned, k + 1)

InferFkEdges(learned) == EdgesFrom(learned, 1)

InferEdges ==
    /\ pathArgs # <<>>
    /\ edges = <<>>
    /\ edges' = [list |-> InferFkEdges(pathArgs.learned)]
    /\ UNCHANGED <<storeVars, pathArgs, path, runVars, callVars>>

NextPath == FindPath \/ InferEdges

SpecPath == InitPath /\ [][NextPath]_vars

(***************************************************************************)
(* C16: find_join_path(T, T) returns the empty path for every table T,     *)
(* and a path returned for any src, dst and schema has at most 2 edges.    *)
(***************************************************************************)
C16_PathAtMostTwoHops ==
    path # <<>> =>
        /\ pathArgs.src = pathArgs.dst
              => path = [found |-> TRUE, steps |-> <<>>]
        /\ Len(path.steps) <= 2

\* A path of two edges was returned, and the table it reaches has a
\* further edge that the search did not follow
C16_Witness ==
    /\ path # <<>>
    /\ path.found
    /\ Len(path.steps) = 2
    /\ Adjacency(pathArgs.learned, pathArgs.dst) # <<>>

(***************************************************************************)
(* C17: the returned list holds no two candidates whose query texts are    *)
(* equal after whitespace normalization, and it is ordered by              *)
(* non-increasing score, candidates of equal score by rationale text.  As  *)
(* stated this fails: the key of the merge is the text as it stands, so a  *)
(* synthesized query and its taught copy, which differ in a line break,    *)
(* are both returned.                                                      *)
(***************************************************************************)
Ordered ==
    \A i \in 1..(Len(cands) - 1) :
        \/ cands[i].score > cands[i + 1].score
        \/ /\ cands[i].score = cands[i + 1].score
           /\ ~RationaleLess(cands[i + 1].rationale, cands[i].rationale)

C17_NoDuplicatesUpToWhitespace ==
    Returned =>
        /\ \A i, j \in 1..Len(cands) :
              NormSql(cands[i].sql) = NormSql(cands[j].sql) => i = j
        /\ Ordered

(***************************************************************************)
(* C17, amended: the returned list holds no two candidates whose query     *)
(* texts are equal once leading and trailing whitespace is removed; each   *)
(* candidate carries the highest score that generate_candidates gave its   *)
(* text; and the list is ordered by non-increasing score, candidates of    *)
(* equal score by rationale text.                                          *)
(***************************************************************************)
\* The scores that the call gave to the query text sql
ScoresOf(sql) ==
    {genArgs.appended[k].score :
        k \in {n \in 1..Len(genArgs.appended) :
                  Strip(genArgs.appended[n].sql) = Strip(sql)}}

C17_NoDuplicateTexts ==
    Returned =>
        /\ \A i, j \in 1..Len(cands) :
              Strip(cands[i].sql) = Strip(cands[j].sql) => i = j
        /\ \A k \in 1..Len(genArgs.appended) : \E i \in 1..Len(cands) :
              Strip(cands[i].sql) = Strip(genArgs.appended[k].sql)
        /\ \A i \in 1..Len(cands) :
              /\ ScoresOf(cands[i].sql) # {}
              /\ cands[i].score = SetMax(ScoresOf(cands[i].sql))
        /\ Ordered

\* A join query and its taught copy, equal up to a line break, are both in
\* the list, and two neighbours of the list have the same score
C17_Witness ==
    /\ Returned
    /\ \E i, j \in 1..Len(cands) :
          /\ i # j
          /\ NormSql(cands[i].sql) = NormSql(cands[j].sql)
          /\ cands[i].rationale.kind = "Join discovery"
          /\ cands[j].rationale.kind = "Retriever"
    /\ \E i \in 1..(Len(cands) - 1) : cands[i].score = cands[i + 1].score

(***************************************************************************)
(* The executor (db.py: run_sql).  A call takes a connection, a query text *)
(* and a row cap; SQLite is the environment.                               *)
(***************************************************************************)
R_Plain == <<"SELECT", WS, "*", WS, "FROM", WS, "users">>
R_LowerLimit == <<"select", WS, "name", WS, "from", WS, "users", WS,
                  "limit", WS, "3">>
R_NlLimit == <<"SELECT", WS, "*", WS, "FROM", WS, "users", NL,
               "LIMIT", WS, "5">>
R_NlLimitAll == <<"SELECT", WS, "*", WS, "FROM", WS, "users", NL,
                  "LIMIT", WS, "-", "1">>
R_EndsLimit == <<"SELECT", WS, "total", WS, "AS", WS, "limit">>
R_Literal == <<"SELECT", WS, "*", WS, "FROM", WS, "claims", WS, "WHERE", WS,
               "status", WS, "=", WS, "'over limit now'">>
R_Semi == <<WS, "SELECT", WS, "1", WS, ";", ";", NL>>
R_Delete == <<"DELETE", WS, "FROM", WS, "users">>
R_NoTable == <<"SELECT", WS, "*", WS, "FROM", WS, "missing">>
R_Alias == <<"SELECT", WS, "'boom'", WS, "AS", WS, "error", ",", WS,
             "'x'", WS, "AS", WS, "sql">>

\* The texts given to run_sql; <<>> stands for both None and "", which
\* (sql or "") makes the same
RunTexts == {<<>>, R_Plain, S_Status, R_LowerLimit, R_NlLimit, R_NlLimitAll,
             R_EndsLimit, R_Literal, R_Semi, R_Delete, R_NoTable, R_Alias,
             S_TwoLimits}
RowLimits == {None, "0", "3", "500"}
Conns == {"open", "closed"}

\* Lexemes that hold the characters " limit " inside them
HoldsLimitWord == {"'over limit now'"}

\* The whitespace run of low that starts at position i ends before this
\* position
RECURSIVE AfterSpaces(_, _)
AfterSpaces(low, i) ==
    IF i <= Len(low) /\ low[i] \in Space THEN AfterSpaces(low, i + 1) ELSE i

\* re.search(r"\blimit\s+\d+\b", low)
LimitNumber(low) ==
    \E i \in 1..Len(low) :
        /\ low[i] = "limit"
        /\ AfterSpaces(low, i + 1) > i + 1
        /\ AfterSpaces(low, i + 1) <= Len(low)
        /\ low[AfterSpaces(low, i + 1)] \in Digits

\* has_limit of run_sql
HasLimit(low) ==
    \/ \E i \in 1..Len(low) :
          \/ low[i] \in HoldsLimitWord
          \/ /\ low[i] = "limit"
             /\ i > 1 /\ low[i - 1] = WS
             /\ i < Len(low) /\ low[i + 1] = WS
    \/ Len(low) > 1 /\ low[Len(low)] = "limit" /\ low[Len(low) - 1] = WS
    \/ LimitNumber(low)

\* The text that run_sql hands to cursor.execute
ExecutedText(sql, row_limit) ==
    LET s == RStripSemi(Strip(sql))
        low == Lower(s)
    IN IF row_limit # None /\ ~HasLimit(low) /\ low # <<>>
          /\ Head(low) = "select"
       THEN s \o <<NL, "LIMIT", WS, row_limit>>
       ELSE s

\* The LIMIT clauses of a text: its LIMIT keywords outside string literals
LimitClauses(s) == Cardinality({i \in 1..Len(s) : Lower(s)[i] = "limit"})

\* Two LIMIT clauses on one SELECT: no parenthesis closes between them
StackedLimits(s) ==
    \E i, j \in 1..Len(s) :
        /\ i < j
        /\ Lower(s)[i] = "limit" /\ Lower(s)[j] = "limit"
        /\ \A k \in i..j : s[k] # ")"

\* d[0] for d in cur.description: the aliases of the select list, else the
\* names that the table gives
ResultCols(s) ==
    LET names == {i \in 2..Len(s) : s[i - 1] = WS /\ i > 2 /\ s[i - 2] = "AS"}
    IN IF names = {} THEN <<"name">>
       ELSE [k \in 1..Cardinality(names) |->
                s[CHOOSE i \in names :
                    Cardinality({j \in names : j <= i}) = k]]

NormalResult(cols, rows) == [failed |-> FALSE, cols |-> cols, rows |-> rows]
Failure(msg) == [failed |-> TRUE, msg |-> msg]

\* What cursor() and execute(s) can do with the text s
SqliteOutcomes(conn, s) ==
    IF conn = "closed"
    THEN {Failure("Cannot operate on a closed database.")}
    ELSE IF s = <<>> THEN {NormalResult(<<>>, <<>>)}
    ELSE IF StackedLimits(s)
    THEN {Failure("near LIMIT: syntax error")}
    ELSE IF "limit" \in SeqToSet(ResultCols(s))
    THEN {Failure("near limit: syntax error")}
    ELSE IF "missing" \in SeqToSet(s)
    THEN {Failure("no such table: missing")}
    ELSE IF Head(Lower(s)) # "select"
    THEN {NormalResult(<<>>, <<>>)}
    ELSE {NormalResult(ResultCols(s), rows) :
            rows \in {<<>>, <<[c \in 1..Len(ResultCols(s)) |-> "v"]>>}}

\* run_sql(conn, sql, row_limit): the text prepared for cursor.execute and
\* the pair returned
RunSqlResult(conn, sql, row_limit, out) ==
    IF out.failed
    THEN [executed |-> ExecutedText(sql, row_limit),
          cols |-> <<"error", "sql">>,
          rows |-> <<<<out.msg, Strip(sql)>>>>,
          failed |-> TRUE]
    ELSE [executed |-> ExecutedText(sql, row_limit),
          cols |-> out.cols,
          rows |-> out.rows,
          failed |-> FALSE]

InitRun ==
    /\ log = <<>>
    /\ offsetFile = -1
    /\ corpusFile = <<>>
    /\ synFile = EmptySyn
    /\ patFile = <<>>
    /\ pc = [p \in Procs |-> "idle"]
    /\ loc = [p \in Procs |-> InitLoc]
    /\ ret = [p \in Procs |-> <<>>]
    /\ doneMax = 0
    /\ saved = -1
    /\ cands = <<>>
    /\ genArgs = <<>>
    /\ pathArgs = <<>> /\ path = <<>> /\ edges = <<>>
    /\ runArgs \in [conn : Conns, sql : RunTexts, row_limit : RowLimits]
    /\ runOut = <<>>
    /\ dynSynCache = <<>> /\ synOut = <<>> /\ loaded = <<>>
    /\ scoreArgs = <<>> /\ scoreOut = <<>>

\* run_sql(conn, sql, row_limit)
RunSql ==
    /\ runArgs # <<>>
    /\ runOut = <<>>
    /\ \E out \in SqliteOutcomes(runArgs.conn,
                      ExecutedText(runArgs.sql, runArgs.row_limit)) :
          runOut' = RunSqlResult(runArgs.conn, runArgs.sql,
                                 runArgs.row_limit, out)
    /\ UNCHANGED <<storeVars, pathVars, runArgs, callVars>>

SpecRun == InitRun /\ [][RunSql]_vars

(***************************************************************************)
(* C18: run_sql appends LIMIT row_limit only to a query that has no LIMIT  *)
(* clause, in any letter case; a query that has one is executed as it is,  *)
(* apart from surrounding whitespace and closing semicolons, so the        *)
(* executed text holds at most one LIMIT clause when the input holds at    *)
(* most one.  As stated this fails for a LIMIT clause on a line of its own *)
(* whose bound is not an unsigned number.                                  *)
(***************************************************************************)
C18_NoSecondLimit ==
    runOut # <<>> =>
        /\ runOut.executed # RStripSemi(Strip(runArgs.sql)) =>
              LimitClauses(runArgs.sql) = 0
        /\ LimitClauses(runArgs.sql) <= 1 => LimitClauses(runOut.executed) <= 1

\* The part of C18 that holds: a query with LIMIT followed by whitespace and
\* an unsigned number is executed as it is, whatever the row cap
C18_NumberedLimitUnchanged ==
    runOut # <<>> /\ LimitNumber(Lower(runArgs.sql)) =>
        runOut.executed = RStripSemi(Strip(runArgs.sql))

\* A capped call on a query without LIMIT, and one on a query with LIMIT n
C18_AppendedOnce ==
    /\ runOut # <<>>
    /\ runArgs.row_limit # None
    /\ LimitClauses(runArgs.sql) = 0
    /\ LimitClauses(runOut.executed) = 1

(***************************************************************************)
(* C20: every failure of run_sql is returned as the pair of the columns    *)
(* error, sql and one row that holds the message and the query text, and   *)
(* that pair is told apart from a normal result by its columns.  As stated *)
(* this fails: a query may name its own columns error and sql.             *)
(***************************************************************************)
SentinelCols == <<"error", "sql">>

C20_ErrorsDistinguishable ==
    runOut # <<>> =>
        /\ runOut.failed =>
              /\ runOut.cols = SentinelCols
              /\ Len(runOut.rows) = 1
              /\ runOut.rows[1][2] = Strip(runArgs.sql)
        /\ ~runOut.failed => runOut.cols # SentinelCols

\* The part of C20 that holds: a failure is returned, never raised, as the
\* sentinel columns and one row of the message and the stripped query text
C20_FailuresReturned ==
    runOut # <<>> /\ runOut.failed =>
        /\ runOut.cols = SentinelCols
        /\ Len(runOut.rows) = 1
        /\ runOut.rows[1][2] = Strip(runArgs.sql)

(***************************************************************************)
(* C19: a line of the feedback log that cannot be parsed as a record is    *)
(* skipped.  The iteration of the loop that meets it moves the read        *)
(* position past it and changes nothing else, so the loop goes on to the   *)
(* later lines; and when the call is at its return it has read the log to  *)
(* its end, every accepted line of the log, the lines after the bad one    *)
(* included, has its pair in the corpus file, and the checkpoint stands at *)
(* the end of the log, past the bad line.  As stated this fails for a line *)
(* that is JSON but no object: the call ends in an exception at that line. *)
(***************************************************************************)
NoRecord(line) == ~line.parsable \/ ~line.record

HasBadLine(lg) == \E i \in 1..Len(lg) : NoRecord(lg[i])

\* The line at the read position of p
LineAt(p) == ChunkAt(log, loc[p].size_after).line

\* The locals after the iteration on the line at the read position of p
AfterLine(p) ==
    ProcessLine(loc[p], LineAt(p), ChunkAt(log, loc[p].size_after).nbytes)

LineSkipped(p) ==
    (pc[p] = "loop" /\ loc[p].size_after < LogBytes(log)
        /\ NoRecord(LineAt(p))) =>
        /\ ~Raises(LineAt(p))
        /\ AfterLine(p).size_after > loc[p].size_after
        /\ AfterLine(p).size_after <= LogBytes(log)
        /\ AfterLine(p) =
              [loc[p] EXCEPT !.size_after = AfterLine(p).size_after]

BadLinePassed(p) ==
    (pc[p] = "return" /\ HasBadLine(log)) =>
        /\ loc[p].size_after = LogBytes(log)
        /\ offsetFile = LogBytes(log)
        /\ \A i \in 1..Len(log) :
              Accepted(log[i]) =>
                  \E k \in 1..Len(corpusFile) :
                      /\ corpusFile[k].q = PairOf(log[i]).q
                      /\ corpusFile[k].sql = PairOf(log[i]).sql

C19_BadLineSkipped == \A p \in SeqProcs : LineSkipped(p) /\ BadLinePassed(p)

\* The part of C19 that holds: a line on which json.loads raises is skipped
C19_UnparsableSkipped ==
    \A p \in SeqProcs :
        /\ (pc[p] = "loop" /\ loc[p].size_after < LogBytes(log)
               /\ ~LineAt(p).parsable) =>
              /\ AfterLine(p).size_after > loc[p].size_after
              /\ AfterLine(p) =
                    [loc[p] EXCEPT !.size_after = AfterLine(p).size_after]
        /\ BadLinePassed(p)

\* One call has read a bad line and the accepted line after it
C19_Witness ==
    /\ Len(log) = 2
    /\ ~log[1].parsable
    /\ Accepted(log[2])
    /\ pc[1] = "return"
    /\ loc[1].offset = 0
    /\ loc[1].new_count = 1
    /\ offsetFile = LogBytes(log)
    /\ Len(corpusFile) = 1

(***************************************************************************)
(* C21: for src different from dst, find_join_path returns a path of one   *)
(* edge whenever an inferred edge leads from src to dst; otherwise a path  *)
(* of two edges whenever two inferred edges lead from src over a table to  *)
(* dst; and no path exactly when neither exists.  A returned path is a     *)
(* chain of inferred edges from src to dst, each edge's right table being  *)
(* the next edge's left table.                                             *)
(***************************************************************************)
EdgeSet == {edges.list[i] : i \in 1..Len(edges.list)}

OneHop(src, dst) == \E e \in EdgeSet : e.L = src /\ e.R = dst

TwoHop(src, dst) ==
    \E e1, e2 \in EdgeSet : e1.L = src /\ e1.R = e2.L /\ e2.R = dst

Chain(steps, src, dst) ==
    /\ steps # <<>>
    /\ \A i \in 1..Len(steps) : steps[i] \in EdgeSet
    /\ steps[1].L = src
    /\ steps[Len(steps)].R = dst
    /\ \A i \in 1..(Len(steps) - 1) : steps[i].R = steps[i + 1].L

Others(learned, t) == {i \in 1..Len(learned) : learned[i].name # t}

\* The table that the three strategies, as stated, give column c of t
StatedTarget(learned, t, c) ==
    FirstHit({i \in Others(learned, t) : PkFor(learned, learned[i].name) = c},
             {i \in Others(learned, t) :
                 \/ learned[i].name = StemOfId(c)
                 \/ Singular(learned[i].name) = StemOfId(c)},
             {i \in Others(learned, t) :
                 \/ Contains(StemOfId(c), learned[i].name)
                 \/ Contains(learned[i].name, StemOfId(c))})

EdgesOfColumn(t, c) ==
    {i \in 1..Len(edges.list) : edges.list[i].L = t /\ edges.list[i].Lcol = c}

C22_EdgeByPriority ==
    edges # <<>> =>
        \A k \in 1..Len(pathArgs.learned) :
            \A n \in 1..Len(pathArgs.learned[k].columns) :
                LET t == pathArgs.learned[k].name
                    c == pathArgs.learned[k].columns[n]
                    hit == StatedTarget(pathArgs.learned, t, c)
                IN /\ Cardinality(EdgesOfColumn(t, c)) <= 1
                   /\ \A i \in EdgesOfColumn(t, c) :
                         /\ EndsWithId(c)
                         /\ edges.list[i].R # t
                         /\ hit # {}
                         /\ edges.list[i].R = pathArgs.learned[SetMin(hit)].name
                   /\ (EndsWithId(c) /\ hit # {}) => EdgesOfColumn(t, c) # {}

\* The part of C22 that holds: at most one edge per column in _id, never to
\* its own table, and to a table found by an earlier search of the code
\* before any found by a later one
C22_OneEdgeNotToSelf ==
    edges # <<>> =>
        \A k \in 1..Len(pathArgs.learned) :
            \A n \in 1..Len(pathArgs.learned[k].columns) :
                LET t == pathArgs.learned[k].name
                    c == pathArgs.learned[k].columns[n]
                IN /\ Cardinality(EdgesOfColumn(t, c)) <= 1
                   /\ \A i \in EdgesOfColumn(t, c) :
                         /\ EndsWithId(c)
                         /\ edges.list[i].R # t
                         /\ (\E j \in Others(pathArgs.learned, t) :
                                PkFor(pathArgs.learned,
                                      pathArgs.learned[j].name) = c)
                              => edges.list[i].Rpk = c

(***************************************************************************)
(* C23: in every inferred edge the key named for the destination is a      *)
(* column of the destination table, chosen as: the column id, else the     *)
(* singular of the table name with _id, else the first column in _id, else *)
(* the first column.  As stated this fails for a table whose singular is   *)
(* not its name less the final s.                                          *)
(***************************************************************************)
StatedPk(table, cols) ==
    IF "id" \in SeqToSet(cols) THEN "id"
    ELSE IF Singular(table) \o "_id" \in SeqToSet(cols)
         THEN Singular(table) \o "_id"
    ELSE IF \E k \in 1..Len(cols) : EndsWithId(cols[k])
         THEN cols[SetMin({k \in 1..Len(cols) : EndsWithId(cols[k])})]
    ELSE cols[1]

C23_KeyBySingular ==
    edges # <<>> =>
        \A i \in 1..Len(edges.list) :
            /\ edges.list[i].R \in TableNames(pathArgs.learned)
            /\ edges.list[i].Rpk
                  \in SeqToSet(Tab(pathArgs.learned, edges.list[i].R).columns)
            /\ edges.list[i].Rpk =
                  StatedPk(edges.list[i].R,
                           Tab(pathArgs.learned, edges.list[i].R).columns)

\* The part of C23 that holds: the key is a column of the destination, and
\* it is the column id whenever the destination has one
C23_KeyIsColumn ==
    edges # <<>> =>
        \A i \in 1..Len(edges.list) :
            /\ edges.list[i].Rpk
                  \in SeqToSet(Tab(pathArgs.learned, edges.list[i].R).columns)
            /\ "id" \in SeqToSet(Tab(pathArgs.learned, edges.list[i].R).columns)
                  => edges.list[i].Rpk = "id"

(***************************************************************************)
(* C30: a path returned for max_hops = h has at most h edges; with         *)
(* max_hops = 1 only a direct edge is returned.                            *)
(***************************************************************************)
C30_PathWithinMaxHops ==
    (path # <<>> /\ path.found) => Len(path.steps) <= pathArgs.max_hops

(***************************************************************************)
(* C27: when no join path of at most two hops connects the resolved entity *)
(* table and the metric table in either direction, generate_candidates     *)
(* appends no top-K-via-join candidate, and it still returns its other     *)
(* candidates.                                                             *)
(***************************************************************************)
ViaJoin(c) ==
    c.rationale.kind \in {"Rule: top-K by highest counts via join",
                          "Rule: top-K by highest metric via join"}

\* The rule resolved two tables and find_join_path finds no path between
\* them, in neither direction
NoPathResolved ==
    /\ genArgs # <<>> /\ genArgs.returned
    /\ genArgs.resolved.ent # None /\ genArgs.resolved.metric # None
    /\ ~FindJoinPath(genArgs.learned, genArgs.resolved.ent,
                     genArgs.resolved.metric).found
    /\ ~FindJoinPath(genArgs.learned, genArgs.resolved.metric,
                     genArgs.resolved.ent).found

C27_NoPathNoJoinCandidate ==
    NoPathResolved =>
        /\ \A i \in 1..Len(genArgs.appended) : ~ViaJoin(genArgs.appended[i])
        /\ \A i \in 1..Len(cands) : ~ViaJoin(cands[i])
        /\ cands # <<>>

\* The rule ran on two tables that nothing joins, and the call returned
C27_Witness ==
    /\ NoPathResolved
    /\ genArgs.resolved.ent = "claims" /\ genArgs.resolved.metric = "users"
    /\ MatchTopKWithHighest(Words(Strip(genArgs.question))).hit
    /\ cands # <<>>

(***************************************************************************)
(* C24: every table and every table.column named in the query text of a    *)
(* candidate that generate_candidates synthesizes itself (the rules, the   *)
(* join discovery, the fallback) exists in the learned schema.             *)
(***************************************************************************)
RefTables == {"claims", "orders", "users", "policies", "organizations"}
RefColumns == {"id", "claim_id", "user_id", "status", "created_at", "total",
               "name"}

Synthesized(c) == c.rationale.kind # "Retriever"

\* The table.column lexemes of a query text, as pairs
ColumnRefs(sql) ==
    {r \in RefTables \X RefColumns :
        \E i \in 1..Len(sql) : sql[i] = Col(r[1], r[2])}

InSchema(learned, r) ==
    /\ r[1] \in TableNames(learned)
    /\ r[2] \in SeqToSet(Tab(learned, r[1]).columns)

RefsExist(learned, sql) ==
    /\ SqlTables(sql) \subseteq TableNames(learned)
    /\ \A r \in ColumnRefs(sql) : InSchema(learned, r)

C24_ReferencesExist ==
    (genArgs # <<>> /\ genArgs.returned) =>
        \A i \in 1..Len(genArgs.appended) :
            Synthesized(genArgs.appended[i])
                => RefsExist(genArgs.learned, genArgs.appended[i].sql)

\* The part of C24 that holds: the tables named after FROM and JOIN exist,
\* and so does every table.column outside the join discovery
C24_TablesExist ==
    (genArgs # <<>> /\ genArgs.returned) =>
        \A i \in 1..Len(genArgs.appended) :
            Synthesized(genArgs.appended[i]) =>
                /\ SqlTables(genArgs.appended[i].sql)
                      \subseteq TableNames(genArgs.learned)
                /\ genArgs.appended[i].rationale.kind # "Join discovery"
                      => \A r \in ColumnRefs(genArgs.appended[i].sql) :
                             InSchema(genArgs.learned, r)

(***************************************************************************)
(* C25: the first number ingest returns is the number of accepted records  *)
(* it processed in the call, whether their pair was new to the corpus or   *)
(* already there; the second is the number of distinct pairs of the corpus *)
(* after the call.                                                         *)
(***************************************************************************)
\* A line that ingest accepts: not (q and sql) is false
AcceptedLine(line) ==
    /\ line.parsable /\ line.record
    /\ Lower(Strip(line.question)) # <<>>
    /\ AcceptedSql(line) # <<>>

\* The accepted records among the lines read from byte from up to byte to
RECURSIVE AcceptedBetween(_, _, _)
AcceptedBetween(lg, from, to) ==
    IF from >= to THEN 0
    ELSE (IF AcceptedLine(ChunkAt(lg, from).line) THEN 1 ELSE 0)
         + AcceptedBetween(lg, from + ChunkAt(lg, from).nbytes, to)

DistinctPairs(items) ==
    \A i, j \in 1..Len(items) :
        (items[i].q = items[j].q /\ items[i].sql = items[j].sql) => i = j

C25_CountsEveryAccepted ==
    \A p \in SeqProcs :
        pc[p] = "return" =>
            /\ loc[p].new_count
                  = AcceptedBetween(log, loc[p].offset, loc[p].size_after)
            /\ loc[p].total = Len(corpusFile)
            /\ DistinctPairs(corpusFile)

\* The pairs of the corpus that the corpus did not hold when the call
\* loaded it
NewPairs(before, after) ==
    {j \in 1..Len(after) :
        IndexGet(Aggregate(before, <<>>), after[j].q, after[j].sql) = 0}

\* C25 as the code has it: the first number counts the pairs that the call
\* added to the corpus, each once however many records carry it, and not
\* the records that reinforce a pair; the second is the number of distinct
\* pairs of the corpus after the call
C25_CountsNewPairs ==
    \A p \in SeqProcs :
        pc[p] = "return" =>
            /\ loc[p].new_count
                  = Cardinality(NewPairs(loc[p].corpus_items, corpusFile))
            /\ loc[p].total = Len(corpusFile)
            /\ DistinctPairs(corpusFile)

\* A call is about to return after reading more accepted records than it
\* added pairs
C25_Witness ==
    \E p \in SeqProcs :
        /\ pc[p] = "return"
        /\ loc[p].new_count = 1
        /\ AcceptedBetween(log, loc[p].offset, loc[p].size_after) = 2
        /\ loc[p].total = 1

(***************************************************************************)
(* nlp.py: synonyms_for with the learned aliases.  The process that asks   *)
(* is the one that ingests; _dyn_syn_cache is filled by its first call.    *)
(***************************************************************************)
\* The tokens whose count is at least 2, each with the columns it maps to
Promote(syn) ==
    [k \in {t \in DOMAIN syn : syn[t].count >= 2} |-> DOMAIN syn[k].maps_to]

\* SYN.get(tok, []) + _dyn_syn_cache.get(tok, []), the plural toggle, tok
SynonymsWith(tok, cache) ==
    SynonymsFor(tok) \cup (IF tok \in DOMAIN cache THEN cache[tok] ELSE {})

SynToks == {"q1", "status"}

\* synonyms_for(tok)
SynonymsForCall ==
    /\ \E tok \in SynToks :
          \E cache \in {IF dynSynCache = <<>> THEN Promote(synFile)
                        ELSE dynSynCache.map} :
             /\ dynSynCache' = [map |-> cache]
             /\ synOut' = [tok |-> tok, result |-> SynonymsWith(tok, cache),
                           store |-> synFile, first |-> dynSynCache = <<>>]
    /\ UNCHANGED <<storeVars, pathVars, runVars, loaded, scoreArgs, scoreOut>>

\* The feedback that teaches the alias q1 of claims.status
SynLines == {Rec(Q_q1, S_Select1, FALSE, S_Status),
             Rec(Q_q1, S_Select1, TRUE, <<>>)}

NextSyn ==
    \/ \E p \in SeqProcs : Ingest(p)
    \/ AllIdle /\ RecordFeedback(SynLines)
    \/ AllIdle /\ SynonymsForCall

SpecSyn == Init /\ [][NextSyn]_vars

(***************************************************************************)
(* C26: at any time synonyms_for(tok) includes the learned column mappings *)
(* of tok if and only if the count of tok in the synonym store at that     *)
(* time is at least 2; a token whose count reaches 2 by a later ingest is  *)
(* expanded by the calls that follow.                                      *)
(***************************************************************************)
\* The columns the store of the moment promotes for tok
LearnedFor(store, tok) ==
    IF tok \in DOMAIN store /\ store[tok].count >= 2
    THEN DOMAIN store[tok].maps_to ELSE {}

C26_PromotedByCurrentCount ==
    synOut # <<>> =>
        synOut.result
            = SynonymsFor(synOut.tok) \cup LearnedFor(synOut.store, synOut.tok)

\* The part of C26 that holds: the first call of a process follows the
\* store it reads, and no call returns a column of a token whose count in
\* the store is below 2
C26_FirstCallByCount ==
    synOut # <<>> =>
        /\ synOut.first =>
              synOut.result = SynonymsFor(synOut.tok)
                                 \cup LearnedFor(synOut.store, synOut.tok)
        /\ synOut.result \subseteq
              SynonymsFor(synOut.tok) \cup LearnedFor(synOut.store, synOut.tok)

(***************************************************************************)
(* predictor.py: the hard hint of score_table_column.  The similarities    *)
(* are rapidfuzz's; the bonus depends on the names and the tokens only.    *)
(***************************************************************************)
\* for t in learned["tables"]: if any(tok in (t, t.rstrip("s")) ...):
\* hard_hint = t; break
HintTable(learned, toks) ==
    LET hits == {i \in 1..Len(learned) :
                    \E k \in 1..Len(toks) :
                        toks[k] \in {learned[i].name, RStripS(learned[i].name)}}
    IN IF hits = {} THEN None ELSE learned[SetMin(hits)].name

\* The tables whose t_score receives the 0.4: if hard_hint and t == hard_hint
BonusTables(learned, toks) ==
    {t \in TableNames(learned) :
        HintTable(learned, toks) # None /\ t = HintTable(learned, toks)}

HintNames == {"orders", "users", "policies"}
HintSchemas ==
    {<<[name |-> a]>> : a \in HintNames}
    \cup {<<[name |-> p[1]], [name |-> p[2]]>> :
             p \in {r \in HintNames \X HintNames : r[1] # r[2]}}
HintWords == {"orders", "users", "order", "policies", "policy", "policie",
              "status"}
HintTokens == {<<a>> : a \in HintWords}
              \cup {<<a, b>> : a \in HintWords, b \in HintWords}

InitScore ==
    /\ log = <<>>
    /\ offsetFile = -1
    /\ corpusFile = <<>>
    /\ synFile = EmptySyn
    /\ patFile = <<>>
    /\ pc = [p \in Procs |-> "idle"]
    /\ loc = [p \in Procs |-> InitLoc]
    /\ ret = [p \in Procs |-> <<>>]
    /\ doneMax = 0
    /\ saved = -1
    /\ cands = <<>>
    /\ genArgs = <<>>
    /\ pathArgs = <<>> /\ path = <<>> /\ edges = <<>>
    /\ runArgs = <<>> /\ runOut = <<>>
    /\ dynSynCache = <<>> /\ synOut = <<>> /\ loaded = <<>>
    /\ scoreArgs \in [learned : HintSchemas, q_tokens : HintTokens]
    /\ scoreOut = <<>>

\* score_table_column(learned, q_tokens): the hint and the bonus
ScoreHint ==
    /\ scoreOut = <<>>
    /\ scoreOut' = [hard_hint |-> HintTable(scoreArgs.learned,
                                            scoreArgs.q_tokens),
                    bonus |-> BonusTables(scoreArgs.learned,
                                          scoreArgs.q_tokens)]
    /\ UNCHANGED <<storeVars, pathVars, runVars, dynSynCache, synOut, loaded,
                   scoreArgs>>

SpecScore == InitScore /\ [][ScoreHint]_vars

(***************************************************************************)
(* C28: the hard-hint bonus is added to every table whose name, or the     *)
(* singular of whose name, equals a token of the question, and to no other *)
(* table; a question that names two tables gives the bonus to both.        *)
(***************************************************************************)
NamedTables(learned, toks) ==
    {t \in TableNames(learned) :
        \E k \in 1..Len(toks) : toks[k] \in {t, Singular(t)}}

C28_BonusToEveryNamed ==
    scoreOut # <<>> =>
        scoreOut.bonus = NamedTables(scoreArgs.learned, scoreArgs.q_tokens)

\* The part of C28 that holds: at most one table receives the bonus, the
\* first in schema order that a token names in full or less its final s's,
\* and some table receives it whenever a token is a table's name
C28_BonusToFirstNamed ==
    scoreOut # <<>> =>
        /\ Cardinality(scoreOut.bonus) <= 1
        /\ \A t \in scoreOut.bonus :
              \E k \in 1..Len(scoreArgs.q_tokens) :
                  scoreArgs.q_tokens[k] \in {t, RStripS(t)}
        /\ (\E t \in TableNames(scoreArgs.learned) :
               \E k \in 1..Len(scoreArgs.q_tokens) :
                   scoreArgs.q_tokens[k] = t)
              => scoreOut.bonus # {}

(***************************************************************************)
(* feedback_learn.py: load_user_corpus, load_synonyms, load_patterns,      *)
(* called by a reader while a caller ingests.                              *)
(***************************************************************************)
LoadKinds == {"corpus", "synonyms", "patterns"}

\* The file a loader reads
StoreFile(kind) ==
    CASE kind = "corpus" -> corpusFile
      [] kind = "synonyms" -> synFile
      [] OTHER -> patFile

\* What the loader returns
LoadOf(kind) ==
    CASE kind = "corpus" -> LoadUserCorpus
      [] kind = "synonyms" -> synFile
      [] OTHER -> patFile

\* One load_*() call of the reader, at any point of the caller's ingest
LoadStore ==
    /\ \E kind \in LoadKinds :
          loaded' = [kind |-> kind, items |-> LoadOf(kind),
                     store |-> StoreFile(kind), at |-> pc[1]]
    /\ UNCHANGED <<storeVars, pathVars, runVars, dynSynCache, synOut,
                   scoreArgs, scoreOut>>

\* The feedback recorded beside the reader
LoadLines == {Rec(Q_q1, S_Select1, TRUE, <<>>)}

\* A reader beside a single caller of ingest
NextLoadSeq ==
    \/ \E p \in SeqProcs : Ingest(p)
    \/ RecordFeedback(LoadLines)
    \/ LoadStore

SpecLoadSeq == Init /\ [][NextLoadSeq]_vars

\* A reader beside the callers of ingest, each calling once
NextLoad ==
    \/ \E p \in Procs : ret[p] = <<>> /\ LoadCorpus(p)
    \/ \E p \in Procs : IngestBody(p)
    \/ RecordFeedback(LoadLines)
    \/ LoadStore

SpecLoad == Init /\ [][NextLoad]_vars

(***************************************************************************)
(* C29: a load_user_corpus, load_patterns or load_synonyms call that runs  *)
(* while ingest runs returns the whole store, as it was before or as it is *)
(* after the write, never a part or a mixture; what it returns is within   *)
(* the store that the ingest leaves: the same items, with counts no larger.*)
(***************************************************************************)
CorpusWithin(items, file) ==
    \A i \in 1..Len(items) :
        \E j \in 1..Len(file) :
            /\ file[j].q = items[i].q /\ file[j].sql = items[i].sql
            /\ items[i].count <= file[j].count

SynWithin(syn, file) ==
    \A t \in DOMAIN syn :
        /\ t \in DOMAIN file
        /\ syn[t].count <= file[t].count
        /\ \A c \in DOMAIN syn[t].maps_to :
              /\ c \in DOMAIN file[t].maps_to
              /\ syn[t].maps_to[c] <= file[t].maps_to[c]

Within(ld) ==
    CASE ld.kind = "corpus" -> CorpusWithin(ld.items, corpusFile)
      [] ld.kind = "synonyms" -> SynWithin(ld.items, synFile)
      [] OTHER -> Range(ld.items) \subseteq Range(patFile)

\* The loader returned every item of the file it read, as stored
Whole(ld) == ld.items = ld.store

C29_ReaderSeesWholeStore ==
    loaded # <<>> => (Whole(loaded) /\ Within(loaded))

\* The part of C29 that holds beside any number of callers: the loader
\* returns every item of the file it read
C29_ReaderSeesWholeFile ==
    loaded # <<>> => Whole(loaded)

====
